---- MODULE Spec2Model ----
(***************************************************************************)
(* Model of the manga reader's upload pipeline (src/js/file-manager.js and *)
(* the FileUtils helpers): archive validation, entry extraction, image /   *)
(* translation matching and the processing flag.                           *)
(*                                                                         *)
(* Strings are sequences of one-character strings, so that the regular     *)
(* expressions and comparisons of the code are computed, not assumed.      *)
(***************************************************************************)
EXTENDS Integers, Sequences, FiniteSets, TLC

\* ------------------------------------------------------------------------
\* Bounds of the model
\* ------------------------------------------------------------------------

\* largest number of entries in an uploaded archive
MaxEntries == 3

\* number of processZipFile invocations that may be in flight at once
NumCalls == 2

\* number of transactions that may be pending when a call is made
MaxPending == 1

\* the clock is read up to MaxClock milliseconds after a stored series
\* reaches its expiry time
MaxClock == 1

\* ------------------------------------------------------------------------
\* Characters
\* ------------------------------------------------------------------------

DigitChars == <<"0", "1", "2", "3", "4", "5", "6", "7", "8", "9">>

LowerChars ==
  <<"a", "b", "c", "d", "e", "f", "g", "h", "i", "j", "k", "l", "m",
    "n", "o", "p", "q", "r", "s", "t", "u", "v", "w", "x", "y", "z">>

UpperChars ==
  <<"A", "B", "C", "D", "E", "F", "G", "H", "I", "J", "K", "L", "M",
    "N", "O", "P", "Q", "R", "S", "T", "U", "V", "W", "X", "Y", "Z">>

\* punctuation of the file names, in the order the collation gives it
PunctChars == <<"_", "-", ".", "/", "\\">>

Range(s) == {s[i] : i \in 1..Len(s)}

IndexOf(c, s) == CHOOSE i \in 1..Len(s) : s[i] = c

IsDigit(c) == c \in Range(DigitChars)

IsUpper(c) == c \in Range(UpperChars)

\* String.prototype.toLowerCase, one character
LowerChar(c) == IF IsUpper(c) THEN LowerChars[IndexOf(c, UpperChars)] ELSE c

\* String.prototype.toLowerCase
toLowerCase(s) == [i \in 1..Len(s) |-> LowerChar(s[i])]

\* [a-z0-9] of normalizeFilename's regular expression
IsLowerAlnum(c) == c \in Range(LowerChars) \cup Range(DigitChars)

\* ------------------------------------------------------------------------
\* String primitives of the JavaScript runtime
\* ------------------------------------------------------------------------

startsWith(s, p) == Len(p) <= Len(s) /\ SubSeq(s, 1, Len(p)) = p

endsWith(s, p) ==
  Len(p) <= Len(s) /\ SubSeq(s, Len(s) - Len(p) + 1, Len(s)) = p

includes(s, p) ==
  \E i \in 1..(Len(s) + 1) :
    i + Len(p) - 1 <= Len(s) /\ SubSeq(s, i, i + Len(p) - 1) = p

\* str.split(sep).pop(): the part after the last sep, the whole string
\* when sep does not occur
LastPart(s, sep) ==
  LET at == {i \in 1..Len(s) : s[i] = sep}
  IN  IF at = {} THEN s
      ELSE LET last == CHOOSE i \in at : \A j \in at : j <= i
           IN  SubSeq(s, last + 1, Len(s))

\* primary collation weight of a character: punctuation, digits, letters
\* (letters of both cases share a weight)
CollationOrder == PunctChars \o DigitChars \o LowerChars

Rank(c) == IndexOf(LowerChar(c), CollationOrder)

RECURSIVE ComparePrimary(_, _)
ComparePrimary(a, b) ==
  IF a = <<>> /\ b = <<>> THEN 0
  ELSE IF a = <<>> THEN -1
  ELSE IF b = <<>> THEN 1
  ELSE IF Rank(Head(a)) < Rank(Head(b)) THEN -1
  ELSE IF Rank(Head(a)) > Rank(Head(b)) THEN 1
  ELSE ComparePrimary(Tail(a), Tail(b))

\* case is a tie-break only: at the first difference the lower case
\* character comes first
RECURSIVE CompareCase(_, _)
CompareCase(a, b) ==
  IF a = <<>> \/ b = <<>> THEN 0
  ELSE IF Head(a) = Head(b) THEN CompareCase(Tail(a), Tail(b))
  ELSE IF IsUpper(Head(b)) THEN -1
  ELSE 1

\* String.prototype.localeCompare: negative, zero or positive
localeCompare(a, b) ==
  IF ComparePrimary(a, b) # 0 THEN ComparePrimary(a, b)
  ELSE CompareCase(a, b)

\* ------------------------------------------------------------------------
\* FileUtils
\* ------------------------------------------------------------------------

Str_jpg  == <<"j", "p", "g">>
Str_jpeg == <<"j", "p", "e", "g">>
Str_png  == <<"p", "n", "g">>
Str_gif  == <<"g", "i", "f">>
Str_webp == <<"w", "e", "b", "p">>
Str_json == <<"j", "s", "o", "n">>

supportedImageTypes == {Str_jpg, Str_jpeg, Str_png, Str_gif, Str_webp}

\* FileUtils.isImage
isImage(filename) ==
  LastPart(toLowerCase(filename), ".") \in supportedImageTypes

\* FileUtils.isJSON
isJSON(filename) == endsWith(toLowerCase(filename), <<".">> \o Str_json)

\* FileUtils.getBaseName: /\.(jpg|jpeg|png|gif|webp|json)$/i replaced by ''
getBaseName(filename) ==
  LET exts == {e \in supportedImageTypes \cup {Str_json} :
                 endsWith(toLowerCase(filename), <<".">> \o e)}
  IN  IF exts = {} THEN filename
      ELSE LET e == CHOOSE x \in exts : TRUE
           IN  SubSeq(filename, 1, Len(filename) - Len(e) - 1)

\* ------------------------------------------------------------------------
\* FileManager: utility functions
\* ------------------------------------------------------------------------

\* FileManager.shouldSkipFile
shouldSkipFile(filename) ==
  LET name == toLowerCase(filename)
      ext  == LastPart(name, ".")
  IN  \/ startsWith(name, <<".">>)
      \/ includes(name, <<"/", ".">>)
      \/ includes(name, <<"_", "_", "m", "a", "c", "o", "s", "x">>)
      \/ includes(name, <<"t", "h", "u", "m", "b", "s", ".", "d", "b">>)
      \/ (ext \notin supportedImageTypes /\ ext # Str_json)

\* FileManager.cleanFilename
cleanFilename(filename) == LastPart(LastPart(filename, "/"), "\\")

RECURSIVE StripLeadingZeros(_)
StripLeadingZeros(s) ==
  IF s # <<>> /\ Head(s) = "0" THEN StripLeadingZeros(Tail(s)) ELSE s

\* FileManager.normalizeFilename
normalizeFilename(filename) ==
  StripLeadingZeros(SelectSeq(toLowerCase(filename), IsLowerAlnum))

\* width the digit runs are padded to by naturalSort
PadWidth == 10

\* length of the digit run a string starts with
RECURSIVE DigitRunLen(_)
DigitRunLen(s) ==
  IF s # <<>> /\ IsDigit(Head(s)) THEN 1 + DigitRunLen(Tail(s)) ELSE 0

\* String.prototype.padStart(width, '0')
padStart(s, width) ==
  IF Len(s) >= width THEN s
  ELSE [i \in 1..(width - Len(s)) |-> "0"] \o s

\* the normalize closure of naturalSort: every digit run padded
RECURSIVE normalize(_)
normalize(str) ==
  IF str = <<>> THEN <<>>
  ELSE IF IsDigit(Head(str))
       THEN LET n == DigitRunLen(str)
            IN  padStart(SubSeq(str, 1, n), PadWidth)
                  \o normalize(SubSeq(str, n + 1, Len(str)))
       ELSE <<Head(str)>> \o normalize(Tail(str))

\* FileManager.naturalSort
naturalSort(a, b) == localeCompare(normalize(a), normalize(b))

\* ------------------------------------------------------------------------
\* JavaScript values of a parsed translation file
\* ------------------------------------------------------------------------

\* a value is a record: its type, a number (the value of a number, the
\* length of a string) and the items of an array
Num(k)     == [t |-> "number", n |-> k, items |-> <<>>]
Str(len)   == [t |-> "string", n |-> len, items |-> <<>>]
Undefined  == [t |-> "undefined", n |-> 0, items |-> <<>>]
Arr(items) == [t |-> "array", n |-> Len(items), items |-> items]

\* the truthiness the ! operator tests
Truthy(v) ==
  CASE v.t = "number" -> v.n # 0
    [] v.t = "string" -> v.n > 0
    [] v.t = "array"  -> TRUE
    [] OTHER          -> FALSE

\* Array.isArray
isArray(v) == v.t = "array"

\* a block of a translation document
Block(box, lines) == [box |-> box, lines |-> lines]

\* the value JSON.parse returns: t is "object", "null" or "number"
Parsed(t, version, w, h, blocks) ==
  [t |-> t, version |-> version, img_width |-> w, img_height |-> h,
   blocks |-> blocks]

\* FileManager.isValidMokuroJSON
isValidMokuroJSON(data) ==
  /\ data.t = "object"
  /\ Truthy(data.version) /\ Truthy(data.img_width) /\ Truthy(data.img_height)
  /\ isArray(data.blocks)
  /\ \A i \in 1..Len(data.blocks.items) :
       LET block == data.blocks.items[i]
       IN  /\ Truthy(block.box) /\ isArray(block.box) /\ block.box.n = 4
           /\ isArray(block.lines)

\* per-image size limit of isValidImage: 50 * 1024 * 1024
MaxImageSize == 52428800

\* FileManager.isValidImage (the blob is given by its size)
isValidImage(blob) == blob.size > 0 /\ blob.size < MaxImageSize

\* ------------------------------------------------------------------------
\* Archive entries
\* ------------------------------------------------------------------------

\* the text of an entry: whether JSON.parse accepts it, its length and the
\* value it parses to
Text(wellFormed, length, value) ==
  [wellFormed |-> wellFormed, length |-> length, value |-> value]

GoodBox == Arr(<<Num(10), Num(20), Num(30), Num(40)>>)
GoodLines == Arr(<<Str(5)>>)

Doc(w, h, blocks) == Parsed("object", Str(5), w, h, Arr(blocks))

NoText == Text(FALSE, 0, Parsed("null", Undefined, Undefined, Undefined, Undefined))

\* an entry of the archive: zipData.files[name]; corrupt entries reject
\* async('blob') and async('text')
Entry(name, dir, corrupt, size, text) ==
  [name |-> name, dir |-> dir, corrupt |-> corrupt, size |-> size,
   text |-> text]

ImageEntry(name, size) == Entry(name, FALSE, FALSE, size, NoText)

JsonEntry(name, text) == Entry(name, FALSE, FALSE, text.length, text)

Name_p2_jpg     == <<"p", "2", ".", "j", "p", "g">>
Name_a_p10_jpg  == <<"a", "/", "p", "1", "0", ".", "j", "p", "g">>
Name_p2_json    == <<"p", "2", ".", "j", "s", "o", "n">>
Name_P_2_json   == <<"P", "-", "2", ".", "J", "S", "O", "N">>
Name_p_02_json  == <<"p", "_", "0", "2", ".", "j", "s", "o", "n">>
Name_z_png      == <<"z", ".", "p", "n", "g">>
Name_big_gif    == <<"b", "i", "g", ".", "g", "i", "f">>
Name_e_webp     == <<"e", ".", "w", "e", "b", "p">>
Name_m_json     == <<"m", ".", "j", "s", "o", "n">>
Name_n_json     == <<"n", ".", "j", "s", "o", "n">>
Name_w_json     == <<"w", ".", "j", "s", "o", "n">>
Name_hidden     == <<".", "h", ".", "j", "p", "g">>
Name_dir        == <<"d", "/">>
Name_long_jpeg  ==
  <<"1", "2", "3", "4", "5", "6", "7", "8", "9", "0", "1", ".", "j", "p", "e", "g">>
Name_nines_jpg  ==
  <<"9", "9", "9", "9", "9", "9", "9", "9", "9", "9", ".", "j", "p", "g">>

\* the entries archives are made of: valid and invalid images, valid,
\* malformed and ill-shaped translation files, ignored entries
EntryPool ==
  { ImageEntry(Name_p2_jpg, 1000),
    ImageEntry(Name_a_p10_jpg, MaxImageSize - 1),
    ImageEntry(Name_long_jpeg, 3000),
    ImageEntry(Name_nines_jpg, 4000),
    ImageEntry(Name_z_png, 0),
    ImageEntry(Name_big_gif, MaxImageSize),
    Entry(Name_e_webp, FALSE, TRUE, 5000, NoText),
    ImageEntry(Name_hidden, 6000),
    Entry(Name_dir, TRUE, FALSE, 0, NoText),
    JsonEntry(Name_p2_json,
              Text(TRUE, 120, Doc(Num(800), Num(1200), <<Block(GoodBox, GoodLines)>>))),
    JsonEntry(Name_P_2_json, Text(TRUE, 60, Doc(Num(640), Num(960), <<>>))),
    JsonEntry(Name_p_02_json, Text(TRUE, 61, Doc(Num(640), Num(960), <<>>))),
    JsonEntry(Name_m_json, Text(FALSE, 17, NoText.value)),
    JsonEntry(Name_n_json,
              Text(TRUE, 130,
                   Doc(Num(-5), Num(960),
                       <<Block(Arr(<<Str(1), Str(1), Str(1), Str(1)>>), GoodLines)>>))),
    JsonEntry(Name_w_json, Text(TRUE, 62, Doc(Num(0), Num(960), <<>>))),
    ImageEntry(Str_png, 700),
    JsonEntry(Str_json, Text(TRUE, 63, Doc(Num(640), Num(960), <<>>))) }

\* Object.keys(zipData.files): the entries of an archive have distinct names
DistinctNames(a) ==
  \A i, j \in 1..Len(a) : a[i].name = a[j].name => i = j

\* the sequences of n entries of pool
RECURSIVE EntriesOfLength(_, _)
EntriesOfLength(n, pool) ==
  IF n = 0 THEN {<<>>}
  ELSE {Append(a, e) : a \in EntriesOfLength(n - 1, pool), e \in pool}

\* ------------------------------------------------------------------------
\* Uploaded files
\* ------------------------------------------------------------------------

\* this.maxFileSize: 100 * 1024 * 1024
maxFileSize == 104857600

Name_m_zip == <<"m", ".", "z", "i", "p">>
Name_M_ZIP == <<"M", ".", "Z", "I", "P">>
Name_a_txt == <<"a", ".", "t", "x", "t">>

\* a File: present is FALSE for a missing file; readable is FALSE when
\* JSZip.loadAsync rejects the bytes; totalFiles is the number of entries of
\* the archive and files are its entries as far as extractFiles has
\* enumerated them (the later ones are fixed when the loop reaches them)
File(present, type, name, size, readable, totalFiles, files) ==
  [present |-> present, type |-> type, name |-> name, size |-> size,
   readable |-> readable, totalFiles |-> totalFiles, files |-> files]

NoFile == File(FALSE, "", <<>>, 0, FALSE, 0, <<>>)

ZipFile(n) == File(TRUE, "application/zip", Name_m_zip, 1000 + n, TRUE, n, <<>>)

RejectedFiles ==
  { NoFile,
    File(TRUE, "text/plain", Name_a_txt, 1000, TRUE, 0, <<>>),
    File(TRUE, "application/zip", Name_m_zip, maxFileSize + 1, TRUE, 0, <<>>),
    File(TRUE, "application/zip", Name_m_zip, 0, TRUE, 0, <<>>) }

UndecodableFiles ==
  { File(TRUE, "", Name_M_ZIP, maxFileSize, FALSE, 0, <<>>) }

Files == RejectedFiles \cup UndecodableFiles \cup {ZipFile(n) : n \in 0..MaxEntries}

Err_NoFile      == "No file provided"
Err_NotZip      == "Please upload a ZIP file"
Err_TooLarge    == "File too large"
Err_EmptyFile   == "ZIP file appears to be empty"
Err_Processing  == "Already processing a file"
Err_Decode      == "Corrupted zip"
Err_EmptyZip    == "ZIP file contains no files"
Err_NoImages    == "No valid image files found in ZIP"
Err_NoImageFiles == "No image files found"
Err_NoPages     == "No pages could be processed"
NoError         == "none"

\* FileManager.validateZipFile: the error it throws, NoError when it returns
validateZipFile(file) ==
  IF ~file.present THEN Err_NoFile
  ELSE IF file.type # "application/zip"
          /\ ~endsWith(toLowerCase(file.name), <<".", "z", "i", "p">>)
       THEN Err_NotZip
  ELSE IF file.size > maxFileSize THEN Err_TooLarge
  ELSE IF file.size = 0 THEN Err_EmptyFile
  ELSE NoError

\* ------------------------------------------------------------------------
\* FileManager: extraction
\* ------------------------------------------------------------------------

\* an absent translation (null) and a present one
null == <<>>

Some(x) == <<x>>

EmptyFiles == [images |-> <<>>, translations |-> <<>>, matched |-> <<>>]

\* FileManager.processImageFile: currentFiles after it returned or threw
processImageFile(cf, filename, zipEntry) ==
  LET blob == [size |-> zipEntry.size]
  IN  IF zipEntry.corrupt \/ ~isValidImage(blob) THEN cf
      ELSE [cf EXCEPT !.images =
              Append(@, [filename |-> cleanFilename(filename),
                         blob     |-> blob,
                         size     |-> blob.size,
                         type     |-> "image",
                         baseName |-> getBaseName(filename)])]

\* FileManager.processJSONFile: currentFiles after it returned or threw
processJSONFile(cf, filename, zipEntry) ==
  LET textContent == zipEntry.text
  IN  IF zipEntry.corrupt \/ ~textContent.wellFormed THEN cf
      ELSE IF ~isValidMokuroJSON(textContent.value) THEN cf
      ELSE [cf EXCEPT !.translations =
              Append(@, [filename |-> cleanFilename(filename),
                         data     |-> textContent.value,
                         size     |-> textContent.length,
                         type     |-> "translation",
                         baseName |-> getBaseName(filename)])]

\* the entries extractFiles awaits: not a directory, not skipped, and an
\* image or a JSON file
IsAwaited(zipEntry) ==
  /\ ~zipEntry.dir
  /\ ~shouldSkipFile(zipEntry.name)
  /\ (isImage(zipEntry.name) \/ isJSON(zipEntry.name))

\* the try block of extractFiles' loop for one awaited entry
processEntry(cf, zipEntry) ==
  IF isImage(zipEntry.name) THEN processImageFile(cf, zipEntry.name, zipEntry)
  ELSE processJSONFile(cf, zipEntry.name, zipEntry)

\* the entries the loop of extractFiles passes from one await to the next:
\* after the entries known, any number of entries it skips, and then an
\* entry it awaits, unless the archive ends first
LoopRuns(known, totalFiles) ==
  LET room    == totalFiles - Len(known)
      skipped == {e \in EntryPool : ~IsAwaited(e)}
      awaited == {e \in EntryPool : IsAwaited(e)}
      toAwait == {Append(s, e) :
                    s \in UNION {EntriesOfLength(k, skipped) : k \in 0..(room - 1)},
                    e \in awaited}
      toEnd   == EntriesOfLength(room, skipped)
  IN  {es \in toAwait \cup toEnd : DistinctNames(known \o es)}

\* the check passing an archive that yielded translations only
noImagesError_AnyRecord(cf) ==
  IF Len(cf.images) = 0 /\ Len(cf.translations) = 0 THEN Err_NoImages
  ELSE NoError

\* the check after extractFiles' loop
noImagesError(cf) == IF Len(cf.images) = 0 THEN Err_NoImages ELSE NoError

\* ------------------------------------------------------------------------
\* FileManager: matching
\* ------------------------------------------------------------------------

\* translations.find(trans => trans.baseName === baseName)
RECURSIVE findExact(_, _)
findExact(translations, baseName) ==
  IF translations = <<>> THEN null
  ELSE IF Head(translations).baseName = baseName THEN Some(Head(translations))
  ELSE findExact(Tail(translations), baseName)

\* translations.find(trans => normalizeFilename(trans.baseName) === imageBase)
RECURSIVE findFuzzy(_, _)
findFuzzy(translations, imageBase) ==
  IF translations = <<>> THEN null
  ELSE IF normalizeFilename(Head(translations).baseName) = imageBase
       THEN Some(Head(translations))
  ELSE findFuzzy(Tail(translations), imageBase)

\* the fallback tried before the exact match
findMatchingTranslation_FuzzyFirst(cf, image) ==
  IF image.baseName = <<>> THEN null
  ELSE LET fuzzyMatch ==
             findFuzzy(cf.translations, normalizeFilename(image.baseName))
       IN  IF fuzzyMatch # null THEN fuzzyMatch
           ELSE findExact(cf.translations, image.baseName)

\* FileManager.findMatchingTranslation
findMatchingTranslation(cf, image) ==
  IF image.baseName = <<>> THEN null
  ELSE LET exactMatch == findExact(cf.translations, image.baseName)
       IN  IF exactMatch # null THEN exactMatch
           ELSE findFuzzy(cf.translations, normalizeFilename(image.baseName))

\* Array.prototype.sort with naturalSort on the filenames: a stable sort
RECURSIVE InsertSorted(_, _)
InsertSorted(sorted, image) ==
  IF sorted = <<>> THEN <<image>>
  ELSE LET last == sorted[Len(sorted)]
       IN  IF naturalSort(last.filename, image.filename) <= 0
           THEN Append(sorted, image)
           ELSE Append(InsertSorted(SubSeq(sorted, 1, Len(sorted) - 1), image),
                       last)

RECURSIVE sort(_)
sort(images) ==
  IF images = <<>> THEN <<>>
  ELSE InsertSorted(sort(SubSeq(images, 1, Len(images) - 1)),
                    images[Len(images)])

\* pageIndex counted from one
pageIndexAt_OneBased(n) == n + 1

\* the pageIndex of the page pushed when matched holds n pages
pageIndexAt(n) == n

\* the hasTranslation of a page: !!matchingTranslation
hasTranslationOf(image, matchingTranslation) == matchingTranslation # null

\* the loop of matchFiles: the pages of images[i..], matched holding the
\* pages before them
RECURSIVE matchLoop(_, _, _)
matchLoop(cf, images, matched) ==
  IF images = <<>> THEN matched
  ELSE LET image == Head(images)
           matchingTranslation == findMatchingTranslation(cf, image)
       IN  matchLoop(cf, Tail(images),
                     Append(matched,
                            [image          |-> image,
                             translation    |-> matchingTranslation,
                             hasTranslation |->
                               hasTranslationOf(image, matchingTranslation),
                             pageIndex      |-> pageIndexAt(Len(matched))]))

\* FileManager.matchFiles: currentFiles after it
matchFiles(cf) ==
  LET sorted == [cf EXCEPT !.images = sort(cf.images)]
  IN  [sorted EXCEPT !.matched = matchLoop(sorted, sorted.images, <<>>)]

\* FileManager.validateFileStructure: the error of an invalid structure,
\* NoError for a valid one
validateFileStructure(cf) ==
  IF Len(cf.images) = 0 THEN Err_NoImageFiles
  ELSE IF Len(cf.matched) = 0 THEN Err_NoPages
  ELSE NoError

\* Math.round(num / den * 100 / 100) for naturals num and den > 0: the
\* integer nearest to num / den, a half rounded up
MathRound(num, den) == (2 * num + den) \div (2 * den)

\* the translation records counted in place of the pages that have one
pagesWithTranslations_Records(cf) == Len(cf.translations)

\* matched.filter(p => p.hasTranslation).length
pagesWithTranslations(cf) ==
  Len(SelectSeq(cf.matched, LAMBDA p : p.hasTranslation))

\* the stats of a structure that is not valid (the result has none)
NoStats ==
  [totalPages |-> 0, pagesWithTranslations |-> 0, translationCoverage |-> 0]

\* the object validateFileStructure returns, as getStats and processZipFile
\* receive it: it is computed from currentFiles on every call
validation(cf) ==
  IF validateFileStructure(cf) # NoError
  THEN [valid |-> FALSE, error |-> validateFileStructure(cf),
        hasTranslations |-> FALSE, stats |-> NoStats]
  ELSE [valid |-> TRUE, error |-> NoError,
        hasTranslations |->
          \E k \in 1..Len(cf.matched) : cf.matched[k].hasTranslation,
        stats |->
          [totalPages            |-> Len(cf.matched),
           pagesWithTranslations |-> pagesWithTranslations(cf),
           translationCoverage   |->
             MathRound(pagesWithTranslations(cf) * 100, Len(cf.matched))]]

\* ------------------------------------------------------------------------
\* StringUtils and Validation
\* ------------------------------------------------------------------------

\* [a-zA-Z0-9-_] of sanitize's regular expression
IsKeyChar(c) ==
  c \in Range(LowerChars) \cup Range(UpperChars) \cup Range(DigitChars)
          \cup {"-", "_"}

\* StringUtils.sanitize
sanitize(str) ==
  toLowerCase([i \in 1..Len(str) |-> IF IsKeyChar(str[i]) THEN str[i] ELSE "_"])

RECURSIVE trimStart(_)
trimStart(str) ==
  IF str # <<>> /\ Head(str) = " " THEN trimStart(Tail(str)) ELSE str

Reverse(str) == [i \in 1..Len(str) |-> str[Len(str) + 1 - i]]

\* String.prototype.trim
trim(str) == Reverse(trimStart(Reverse(trimStart(str))))

\* [a-zA-Z0-9\s\-_.,!?()[\]] of seriesName's regular expression
IsSeriesNameChar(c) ==
  c \in Range(LowerChars) \cup Range(UpperChars) \cup Range(DigitChars)
          \cup {" ", "-", "_", ".", ",", "!", "?", "(", ")", "[", "]"}

MaxSeriesNameLength == 50

Err_NameRequired == "Series name is required"
Err_NameEmpty    == "Series name cannot be empty"
Err_NameTooLong  == "Series name must be 50 characters or less"
Err_NameChars    == "Series name contains invalid characters"

\* Validation.seriesName
seriesName(name) ==
  LET trimmed == trim(name)
      invalid(error) == [valid |-> FALSE, error |-> error, value |-> <<>>]
  IN  IF name = <<>> THEN invalid(Err_NameRequired)
      ELSE IF Len(trimmed) < 1 THEN invalid(Err_NameEmpty)
      ELSE IF Len(trimmed) > MaxSeriesNameLength THEN invalid(Err_NameTooLong)
      ELSE IF \E i \in 1..Len(trimmed) : ~IsSeriesNameChar(trimmed[i])
           THEN invalid(Err_NameChars)
      ELSE [valid |-> TRUE, error |-> NoError, value |-> trimmed]

\* ------------------------------------------------------------------------
\* StorageManager: reading progress
\* ------------------------------------------------------------------------

\* the property name whose assignment replaces the prototype of an object
Str_proto == <<"_", "_", "p", "r", "o", "t", "o", "_", "_">>

\* a property that is absent (undefined) where a number is read
NoNumber == -1

\* Object.prototype, read as a progress record: it has none of the fields
ObjectPrototype ==
  [originalName |-> <<>>, currentPage |-> NoNumber, totalPages |-> NoNumber,
   percentage |-> NoNumber]

\* the progress object is a function from its own property names to their
\* values, as JSON.stringify writes it and JSON.parse reads it back

\* obj[key] = value: the assignment to __proto__ replaces the prototype and
\* creates no own property, so that JSON.stringify does not write it
setProperty(obj, key, value) ==
  IF key = Str_proto THEN obj
  ELSE [k \in DOMAIN obj \cup {key} |-> IF k = key THEN value ELSE obj[k]]

\* obj[key] || null of an object created by JSON.parse
getProperty(obj, key) ==
  IF key \in DOMAIN obj THEN Some(obj[key])
  ELSE IF key = Str_proto THEN Some(ObjectPrototype)
  ELSE null

\* the progress data a caller passes (lastRead, a time stamp nothing reads
\* back, is left out)
ProgressData(currentPage, totalPages) ==
  [currentPage |-> currentPage, totalPages |-> totalPages]

\* StorageManager.saveProgress: the progress object stored after it
saveProgress(progress, name, progressData) ==
  IF name = <<>> THEN progress
  ELSE setProperty(progress, sanitize(name),
         [originalName |-> name,
          currentPage  |-> progressData.currentPage,
          totalPages   |-> progressData.totalPages,
          percentage   |->
            IF progressData.totalPages > 0
            THEN MathRound(progressData.currentPage * 100,
                           progressData.totalPages)
            ELSE 0])

\* StorageManager.getProgress
getProgress(progress, name) ==
  IF name = <<>> THEN null ELSE getProperty(progress, sanitize(name))

\* ------------------------------------------------------------------------
\* StorageManager: storage abstraction, settings and clearAll
\* ------------------------------------------------------------------------

PROGRESS_KEY      == "manga_reader_progress"
SETTINGS_KEY      == "manga_reader_settings"
RECENT_SERIES_KEY == "manga_reader_recent_series"

\* the object literal the constructor assigns to this.defaultSettings
defaultSettings ==
  [readingDirection |-> "ltr", translationStyle |-> "overlay",
   translationOpacity |-> 80, textSize |-> 16, fitToWidth |-> TRUE,
   hideUI |-> FALSE]

\* { ...a, ...b }
Spread(a, b) ==
  [k \in DOMAIN a \cup DOMAIN b |-> IF k \in DOMAIN b THEN b[k] ELSE a[k]]

\* obj[key] = value on a storage object
WithItem(obj, key, value) == Spread(obj, [k \in {key} |-> value])

\* delete obj[key]
WithoutItem(obj, key) == [k \in DOMAIN obj \ {key} |-> obj[k]]

\* what localStorage does: "ok", "full" (setItem throws, as over quota or in
\* a private window) or "denied" (every access throws)
Modes == {"ok", "full", "denied"}

\* a StorageManager over the browser's localStorage: items is the content of
\* localStorage and mode what it does; memoryStorage is null while the
\* field is undefined; defaults is the object this.defaultSettings refers to
\* and aliased says that this.settings refers to that same object
StorageManager(items, mode, useMemory, memory, settings, defaults, aliased) ==
  [items |-> items, mode |-> mode, useMemoryStorage |-> useMemory,
   memoryStorage |-> memory, settings |-> settings,
   defaults |-> defaults, aliased |-> aliased]

\* StorageManager.getItem: null, or the item
getItem(st, key) ==
  IF st.useMemoryStorage
  THEN IF key \in DOMAIN st.memoryStorage[1]
       THEN Some(st.memoryStorage[1][key]) ELSE null
  ELSE IF st.mode = "denied" THEN null
  ELSE IF key \in DOMAIN st.items THEN Some(st.items[key]) ELSE null

\* this.memoryStorage[key] = value, the object created where there is none
memoryWrite(st, key, value) ==
  Some(WithItem(IF st.memoryStorage = null THEN <<>> ELSE st.memoryStorage[1],
                key, value))

\* the flag useMemoryStorage after setItem has fallen back to the memory
\* storage: it is left as it is
fallbackFlag(useMemoryStorage) == useMemoryStorage

\* StorageManager.setItem, which returns true on every path: the manager
\* after it
setItem(st, key, value) ==
  IF st.useMemoryStorage
  THEN [st EXCEPT !.memoryStorage = memoryWrite(st, key, value)]
  ELSE IF st.mode = "ok"
  THEN [st EXCEPT !.items = WithItem(st.items, key, value)]
  ELSE [st EXCEPT !.memoryStorage = memoryWrite(st, key, value),
                  !.useMemoryStorage = fallbackFlag(st.useMemoryStorage)]

\* StorageManager.removeItem
removeItem(st, key) ==
  IF st.useMemoryStorage
  THEN [st EXCEPT !.memoryStorage = Some(WithoutItem(st.memoryStorage[1], key))]
  ELSE IF st.mode = "denied" THEN st
  ELSE [st EXCEPT !.items = WithoutItem(st.items, key)]

\* StorageManager.getSettings: a new object, the defaults under the saved
\* settings
getSettings(st) ==
  Spread(st.defaults,
         IF getItem(st, SETTINGS_KEY) = null THEN <<>>
         ELSE getItem(st, SETTINGS_KEY)[1])

\* StorageManager.getAllProgress
getAllProgress(st) ==
  IF getItem(st, PROGRESS_KEY) = null THEN <<>>
  ELSE getItem(st, PROGRESS_KEY)[1]

\* StorageManager.getRecentSeries, the later of the two methods of that
\* name, which is the one the class has
getRecentSeries(st) ==
  IF getItem(st, RECENT_SERIES_KEY) = null THEN <<>>
  ELSE getItem(st, RECENT_SERIES_KEY)[1]

\* the constructor and init over the localStorage found
newStorageManager(items, mode) ==
  LET st == StorageManager(items, mode, mode # "ok",
                           IF mode # "ok" THEN Some(<<>>) ELSE null,
                           defaultSettings, defaultSettings, FALSE)
  IN  [st EXCEPT !.settings = getSettings(st)]

\* StorageManager.saveSettings
saveSettings(st, settings) ==
  setItem([st EXCEPT !.settings = Spread(st.settings, settings),
                     !.aliased = FALSE],
          SETTINGS_KEY, Spread(st.settings, settings))

\* StorageManager.setSetting: this.settings[key] = value writes to the
\* object this.settings refers to, then saveSettings
setSetting(st, key, value) ==
  saveSettings([st EXCEPT !.settings = WithItem(st.settings, key, value),
                          !.defaults = IF st.aliased
                                       THEN WithItem(st.defaults, key, value)
                                       ELSE st.defaults],
               [k \in {key} |-> value])

\* StorageManager.saveProgress over the storage
StorageManager_saveProgress(st, name, progressData) ==
  IF name = <<>> THEN st
  ELSE setItem(st, PROGRESS_KEY,
               saveProgress(getAllProgress(st), name, progressData))

\* StorageManager.getProgress over the storage
StorageManager_getProgress(st, name) == getProgress(getAllProgress(st), name)

\* the entries kept in the recent list
maxRecent == 10

RECURSIVE Without(_, _)
\* recentSeries without the entry of this id
Without(recentSeries, id) ==
  IF recentSeries = <<>> THEN <<>>
  ELSE IF Head(recentSeries).id = id THEN Without(Tail(recentSeries), id)
  ELSE <<Head(recentSeries)>> \o Without(Tail(recentSeries), id)

RECURSIVE spliceFirst(_, _)
\* findIndex and splice(existingIndex, 1): recentSeries without the first
\* entry of this id
spliceFirst(recentSeries, id) ==
  IF recentSeries = <<>> THEN <<>>
  ELSE IF Head(recentSeries).id = id THEN Tail(recentSeries)
  ELSE <<Head(recentSeries)>> \o spliceFirst(Tail(recentSeries), id)

\* StorageManager.addRecentSeries (stats and addedDate, which nothing here
\* reads, are left out)
addRecentSeries(st, name) ==
  IF name = <<>> THEN st
  ELSE LET list == <<[id |-> sanitize(name), name |-> name]>>
                     \o spliceFirst(getRecentSeries(st), sanitize(name))
       IN  setItem(st, RECENT_SERIES_KEY,
                   SubSeq(list, 1, IF Len(list) > maxRecent THEN maxRecent
                                   ELSE Len(list)))

\* StorageManager.removeRecentSeries
removeRecentSeries(st, name) ==
  IF name = <<>> THEN st
  ELSE setItem(st, RECENT_SERIES_KEY,
               Without(getRecentSeries(st), sanitize(name)))

\* StorageManager.clearAll: this.settings = this.defaultSettings makes the
\* two one object
clearAll(st) ==
  LET removed == removeItem(removeItem(st, PROGRESS_KEY), SETTINGS_KEY)
  IN  [removed EXCEPT !.memoryStorage = IF removed.useMemoryStorage
                                        THEN Some(<<>>) ELSE @,
                      !.settings = removed.defaults,
                      !.aliased = TRUE]

\* ------------------------------------------------------------------------
\* IndexedDBManager: the mangaSeries object store
\* ------------------------------------------------------------------------

\* life time of a stored series: 24 * 60 * 60 * 1000
ExpiryTime == 86400000

\* the seriesData object storeSeries builds at time t
SeriesData(name, files, t) ==
  [name |-> name, files |-> files, uploadDate |-> t,
   expiresAt |-> t + ExpiryTime]

\* a put that keeps the record already stored under the key
put_Add(store, value) == store \cup {value}

\* IDBObjectStore.put on a store with keyPath 'name': the record with the
\* key of value is replaced
put(store, value) == {r \in store : r.name # value.name} \cup {value}

\* IDBObjectStore.get
get(store, name) ==
  IF \E r \in store : r.name = name
  THEN Some(CHOOSE r \in store : r.name = name)
  ELSE null

\* IDBObjectStore.delete
delete(store, name) == {r \in store : r.name # name}

\* IDBObjectStore.getAllKeys
getAllKeys(store) == {r.name : r \in store}

\* the test of getSeries on a record it found
hasExpired(record, t) == record.expiresAt < t

Err_NotInitialized == "IndexedDB not initialized"
Err_Request        == "request failed"
Err_NoData         == "No manga data available"
Err_StartReading   == "Failed to start reading session"

\* a transaction on the object store with its one request; accepted is
\* true when the request has succeeded and the transaction has not ended;
\* by is the caller: "api", "app" (startReading) or "expiry" (getSeries,
\* which drops the promise)
Transaction(op, name, value, by) ==
  [op |-> op, name |-> name, value |-> value, by |-> by, accepted |-> FALSE]

NoRecord == SeriesData(<<>>, 0, 0)

\* how the promise of a call settled: resolved with value, or rejected
Settled(outcome, value) == [outcome |-> outcome, value |-> value]

NothingSettled == Settled("none", null)

\* MangaReaderApp as far as startReading goes: pc is "idle", "storing"
\* (awaiting storeSeries), "waiting" (awaiting the timer) or "navigated";
\* of the last call of startReading, stored is the state of the promise of
\* its storeSeries call, tx the state of that call's transaction and error
\* the error it has shown
App(pc, name, stored, tx, error) ==
  [pc |-> pc, name |-> name, stored |-> stored, tx |-> tx, error |-> error]

\* ------------------------------------------------------------------------
\* MangaReader: overlap separation of the rendered translation blocks
\* ------------------------------------------------------------------------

\* lengths are counted in 1/Unit of a pixel, so that the halves
\* applySeparation takes (needed / 2) are whole numbers
Unit == 8

MathMin(a, b) == IF a <= b THEN a ELSE b
MathMax(a, b) == IF a >= b THEN a ELSE b

\* the constants of applySeparation, in pixels
padding       == 2
maxPairStep   == 6
maxTotal      == 24
maxIterations == 10

\* the margin of _nudgeWithinOverlay, in pixels
margin == 4

\* a rendered .translation-block element: style.left, style.top, its
\* offset size, and the box of the translation block it renders
Element(left, top, width, height, box) ==
  [left |-> left, top |-> top, width |-> width, height |-> height,
   box |-> box]

\* getBoundingClientRect of an element, the overlay being at the origin
Rect(el) ==
  [left |-> el.left, top |-> el.top, right |-> el.left + el.width,
   bottom |-> el.top + el.height, width |-> el.width, height |-> el.height]

_rectsOverlap(a, b) ==
  ~(a.right <= b.left \/ a.left >= b.right \/ a.bottom <= b.top
    \/ a.top >= b.bottom)

\* a nudge that leaves the clamp out
_nudgeWithinOverlay_Unclamped(el, dx, dy, overlayRect) ==
  [el EXCEPT !.left = el.left + dx, !.top = el.top + dy]

\* _nudgeWithinOverlay: left and top are both clamped, whichever moves
_nudgeWithinOverlay(el, dx, dy, overlayRect) ==
  LET minLeft == margin * Unit
      minTop  == margin * Unit
      maxLeft == overlayRect.width - el.width - margin * Unit
      maxTop  == overlayRect.height - el.height - margin * Unit
  IN  [el EXCEPT !.left = MathMax(minLeft, MathMin(maxLeft, el.left + dx)),
                 !.top  = MathMax(minTop, MathMin(maxTop, el.top + dy))]

\* an _ensureSavedOriginal that overwrites the position recorded before
_ensureSavedOriginal_Overwrite(originals, k, el) ==
  [i \in DOMAIN originals \cup {k} |->
     IF i = k THEN [left |-> el.left, top |-> el.top] ELSE originals[i]]

\* _ensureSavedOriginal: _originalPositions, a map from elements (here their
\* place among the overlay's blocks) to positions, after it
_ensureSavedOriginal(originals, k, el) ==
  IF k \in DOMAIN originals THEN originals
  ELSE [i \in DOMAIN originals \cup {k} |->
          IF i = k THEN [left |-> el.left, top |-> el.top] ELSE originals[i]]

\* restoreOriginalPositions: the blocks after it (the map is cleared)
restoreOriginalPositions(blocks, originals) ==
  [k \in DOMAIN blocks |->
     IF k \in DOMAIN originals
     THEN [blocks[k] EXCEPT !.left = originals[k].left,
                            !.top = originals[k].top]
     ELSE blocks[k]]

\* the state of applySeparation's loops: the blocks, movedTotals, the
\* original positions, the sweeps done, whether the last sweep nudged a
\* pair, and whether every half taken so far was a whole number of units
Separation(blocks, originals) ==
  [blocks |-> blocks, movedTotals |-> [k \in DOMAIN blocks |-> 0],
   originals |-> originals, iter |-> 0, any |-> FALSE, exact |-> TRUE]

\* a loop body that ignores the cap per element
capOf_Unlimited(moved) == maxTotal * Unit

\* the displacement an element has left: Math.max(0, maxTotal - moved)
capOf(moved) == MathMax(0, maxTotal * Unit - moved)

\* the body of the loops for the pair (i, j)
VisitPair(s, i, j, overlayRect) ==
  LET a  == s.blocks[i]
      b  == s.blocks[j]
      ra == Rect(a)
      rb == Rect(b)
      penX == MathMax(0, MathMin(ra.right, rb.right) - MathMax(ra.left, rb.left))
      penY == MathMax(0, MathMin(ra.bottom, rb.bottom) - MathMax(ra.top, rb.top))
      axis == IF penX <= penY THEN "x" ELSE "y"
      needed == MathMin((IF axis = "x" THEN penX ELSE penY) + padding * Unit,
                        maxPairStep * Unit)
      step == MathMin(needed \div 2,
                      MathMin(capOf(s.movedTotals[i]), capOf(s.movedTotals[j])))
      \* bcx >= acx, with the centres doubled
      dir == IF axis = "x"
             THEN IF 2 * rb.left + rb.width >= 2 * ra.left + ra.width THEN 1 ELSE -1
             ELSE IF 2 * rb.top + rb.height >= 2 * ra.top + ra.height THEN 1 ELSE -1
      dx == IF axis = "x" THEN dir * step ELSE 0
      dy == IF axis = "y" THEN dir * step ELSE 0
  IN  IF ~_rectsOverlap(ra, rb) THEN s
      ELSE IF step <= 0 THEN s
      ELSE [blocks |-> [s.blocks EXCEPT
                          ![i] = _nudgeWithinOverlay(a, -dx, -dy, overlayRect),
                          ![j] = _nudgeWithinOverlay(b, dx, dy, overlayRect)],
            movedTotals |-> [s.movedTotals EXCEPT ![i] = @ + step,
                                                  ![j] = @ + step],
            originals |-> _ensureSavedOriginal(
                            _ensureSavedOriginal(s.originals, i, a), j, b),
            iter |-> s.iter, any |-> TRUE,
            exact |-> s.exact /\ needed % 2 = 0]

\* the two inner loops from the pair (i, j) on
RECURSIVE SweepFrom(_, _, _, _)
SweepFrom(s, i, j, overlayRect) ==
  IF i > Len(s.blocks) THEN s
  ELSE IF j > Len(s.blocks) THEN SweepFrom(s, i + 1, i + 2, overlayRect)
  ELSE SweepFrom(VisitPair(s, i, j, overlayRect), i, j + 1, overlayRect)

\* one iteration of the outer loop
Sweep(s, overlayRect) ==
  [SweepFrom([s EXCEPT !.any = FALSE], 1, 2, overlayRect)
     EXCEPT !.iter = s.iter + 1]

\* an outer loop that goes on until a sweep nudges no pair
loopEnds_NoLimit(s) == s.iter > 0 /\ ~s.any

\* the outer loop ends: maxIterations sweeps are done, or the last one
\* nudged no pair
loopEnds(s) == s.iter >= maxIterations \/ (s.iter > 0 /\ ~s.any)

RECURSIVE SweepAll(_, _)
SweepAll(s, overlayRect) ==
  IF loopEnds(s) THEN s ELSE SweepAll(Sweep(s, overlayRect), overlayRect)

\* applySeparation on the blocks of the overlay
applySeparation(blocks, originals, overlayRect) ==
  IF blocks = <<>> THEN Separation(blocks, originals)
  ELSE SweepAll(Separation(blocks, originals), overlayRect)

\* ------------------------------------------------------------------------
\* State
\* ------------------------------------------------------------------------

VARIABLES
  processing,    \* FileManager.processing
  currentFiles,  \* FileManager.currentFiles: images, translations, matched
  run,           \* the processZipFile invocations: where each is suspended
  result         \* what each invocation settled with

VARIABLES
  db,            \* IndexedDBManager.db: whether the database is open
  mangaSeries,   \* the records of the object store 'mangaSeries'
  transactions,  \* the transactions on it that have not ended, oldest first
  now,           \* Date.now()
  settled,       \* the promise that settled last
  lastStored,    \* per name, the record last committed and not deleted since
  progress,      \* the object stored under PROGRESS_KEY
  app            \* MangaReaderApp: where startReading is

VARIABLES
  sep,           \* MangaReader: the overlay's blocks and their separation
  reader,        \* MangaReader: the reader page, its image and its overlay
  fit            \* renderTranslations: the font fitting of a block

VARIABLES
  storage,           \* storageManager and the localStorage under it
  currentSeriesData  \* MangaReaderApp.currentSeriesData

fileManagerVars == <<processing, currentFiles, run, result>>

storeVars ==
  <<db, mangaSeries, transactions, now, settled, lastStored, progress, app>>

viewVars == <<sep, reader, fit>>

vars == <<fileManagerVars, storeVars, viewVars, storage, currentSeriesData>>

\* the invocations that can be in flight
Calls == 1..NumCalls

\* an invocation: pc is "idle" (none, or settled), "loading" (awaiting
\* zip.loadAsync), "extracting" (extractFiles awaiting entry idx) or
\* "extracted" (extractFiles settled with error, processZipFile not resumed)
Invocation(pc, file, idx, error) ==
  [pc |-> pc, file |-> file, idx |-> idx, error |-> error, reported |-> <<>>]

\* a call of the progress callback: the percentage, and which message
Report(percent, message) == [progress |-> percent, message |-> message]

\* extractFiles counts the entry as processed: it is no directory and is
\* not skipped
IsCounted(zipEntry) == ~zipEntry.dir /\ ~shouldSkipFile(zipEntry.name)

\* the extraction stage taking half of the scale
fileProgress_Half(processedFiles, totalFiles) ==
  30 + (processedFiles * 50) \div totalFiles

\* 30 + Math.floor((processedFiles / totalFiles) * 40)
fileProgress(processedFiles, totalFiles) ==
  30 + (processedFiles * 40) \div totalFiles

\* the entries of a sequence that extractFiles counts
RECURSIVE NumCounted(_)
NumCounted(entries) ==
  IF entries = <<>> THEN 0
  ELSE NumCounted(Tail(entries)) + (IF IsCounted(Head(entries)) THEN 1 ELSE 0)

\* the calls of the progress callback while the loop of extractFiles passes
\* these entries, processedFiles entries having been counted before
RECURSIVE processingReports(_, _, _)
processingReports(entries, processedFiles, totalFiles) ==
  IF entries = <<>> THEN <<>>
  ELSE IF IsCounted(Head(entries))
  THEN <<Report(fileProgress(processedFiles + 1, totalFiles), "processing")>>
         \o processingReports(Tail(entries), processedFiles + 1, totalFiles)
  ELSE processingReports(Tail(entries), processedFiles, totalFiles)

Active(r) == run[r].pc # "idle"

\* the invocation a new call of processZipFile becomes
NextCall == CHOOSE r \in Calls : ~Active(r) /\ \A q \in Calls : ~Active(q) => r <= q

\* the names a series is stored, read and deleted under
Name_A_b == <<"A", " ", "b">>
Name_a_b == <<"a", "_", "b">>

SessionNames == {Name_A_b, Name_a_b}

\* what the user has typed into the series name field
TypedNames == {<<" ">> \o Name_A_b, Name_a_b, <<"a", "/", "b">>}

\* the names progress is saved under
ProgressNames == SessionNames \cup {Str_proto}

\* the object processZipFile returns for currentFiles cf and file
processZipFileResult(cf, file) ==
  [success |-> TRUE, images |-> cf.images, translations |-> cf.translations,
   matched |-> cf.matched,
   stats |-> [imageCount       |-> Len(cf.images),
              translationCount |-> Len(cf.translations),
              matchedCount     |-> Len(cf.matched),
              totalSize        |-> file.size]]

\* what processZipFile returns for an archive of these entries
RECURSIVE ExtractAll(_, _)
ExtractAll(cf, entries) ==
  IF entries = <<>> THEN cf
  ELSE ExtractAll(IF IsAwaited(Head(entries))
                  THEN processEntry(cf, Head(entries)) ELSE cf,
                  Tail(entries))

Upload(entries) ==
  processZipFileResult(matchFiles(ExtractAll(EmptyFiles, entries)),
                       ZipFile(Len(entries)))

\* the uploads a series is stored from: one page with its translation, and
\* three pages without
Upload_Short ==
  Upload(<<ImageEntry(Name_p2_jpg, 1000),
           JsonEntry(Name_p2_json,
                     Text(TRUE, 120,
                          Doc(Num(800), Num(1200), <<Block(GoodBox, GoodLines)>>)))>>)

Upload_Long ==
  Upload(<<ImageEntry(Name_nines_jpg, 4000), ImageEntry(Name_p2_jpg, 1000),
           ImageEntry(Name_a_p10_jpg, MaxImageSize - 1)>>)

Uploads == {Upload_Short, Upload_Long}

\* the progress a reader saves
Progresses == {ProgressData(1, 3), ProgressData(2, 3)}

\* the clock readings
Times == {0} \cup {ExpiryTime + ms : ms \in 0..MaxClock}

\* a block of w x h pixels rendered at (x, y)
Placed(x, y, w, h) ==
  Element(x * Unit, y * Unit, w * Unit, h * Unit, <<x, y, w, h>>)

\* the overlay and the blocks a page is rendered to
Layout(width, height, blocks) ==
  [overlayRect |-> [width |-> width * Unit, height |-> height * Unit],
   blocks |-> blocks]

\* the layouts separation is run on: two blocks apart; two overlapping
\* blocks of equal size, the second at, left or right of, above or below
\* the first; two blocks the overlay's margin holds in place; two
\* blocks that exhaust their displacement; four blocks that are still being
\* nudged in the last sweep; a cluster of three; a block left of the margin
Layout_Apart ==
  Layout(100, 100, <<Placed(10, 10, 20, 10), Placed(50, 50, 20, 10)>>)
Layouts_Equal ==
  { Layout(100, 100, <<Placed(30, 30, 40, 20),
                       Placed(30 + dx, 30 + dy, 40, 20)>>) :
      dx \in {-6, 0, 6}, dy \in {-4, 0, 4} }
Layout_Held ==
  Layout(50, 40, <<Placed(30, 1, 10, 10), Placed(0, 0, 40, 10)>>)
Layout_Exhausted ==
  Layout(50, 40, <<Placed(17, 20, 20, 20), Placed(16, 1, 20, 20)>>)
Layout_Four ==
  Layout(60, 60, <<Placed(0, 42, 40, 10), Placed(40, 33, 20, 20),
                   Placed(18, 13, 20, 20), Placed(15, 8, 20, 20)>>)
Layout_Three ==
  Layout(400, 300, <<Placed(50, 50, 40, 20), Placed(40, 56, 40, 20),
                     Placed(40, 62, 40, 20)>>)
Layout_Margin ==
  Layout(60, 60, <<Placed(32, 25, 20, 20), Placed(3, 8, 40, 20)>>)
\* two blocks of boxes at the left edge of the page, which renderTranslations
\* places up to 15 pixels left of the overlay
Layout_Edge ==
  Layout(400, 300, <<Placed(-15, 50, 60, 100), Placed(-10, 60, 60, 100)>>)

\* a block wider than the overlay less its margins, under a smaller one
Layout_Wide ==
  Layout(50, 40, <<Placed(2, 5, 45, 10), Placed(10, 8, 20, 10)>>)

Layouts ==
  Layouts_Equal \cup
  {Layout_Apart, Layout_Held, Layout_Exhausted, Layout_Four, Layout_Three,
   Layout_Margin, Layout_Edge, Layout_Wide}

FileManagerInit ==
  /\ processing = FALSE
  /\ currentFiles = EmptyFiles
  /\ run = [r \in Calls |-> Invocation("idle", NoFile, 0, NoError)]
  /\ result = [r \in Calls |-> "none"]

StoreInit ==
  /\ db = FALSE
  /\ mangaSeries = {}
  /\ transactions = <<>>
  /\ now = 0
  /\ settled = NothingSettled
  /\ lastStored = [name \in SessionNames |-> null]
  /\ progress = <<>>
  /\ app = App("idle", <<>>, "none", "none", NoError)

\* font sizes are counted in 1/FontUnit of a pixel; the products the code
\* takes in floating point (0.6, 0.2 and 0.9 times a size) are rounded down
\* to that unit
FontUnit == 10000

\* a JavaScript number: NaN, or n in 1/FontUnit
Number(n) == [nan |-> FALSE, n |-> n]
NaN       == [nan |-> TRUE, n |-> 0]

\* no block is being fitted
NoFit ==
  [pc |-> "idle", textSize |-> Number(0), scaledHeight |-> Number(0),
   fontSize |-> Number(0), styleFontSize |-> Number(0),
   wrappedAt |-> Number(0), attempts |-> 0, textFits |-> FALSE]

\* the overlay of a reader that has rendered nothing
NoOverlay == [width |-> 0, height |-> 0]

SeparationInit ==
  sep = [enabled |-> FALSE, running |-> FALSE, rendered |-> <<>>,
         overlayRect |-> NoOverlay, s |-> Separation(<<>>, <<>>)]

\* a MangaReader after its constructor: page is "closed" (no reader page is
\* open), "ready" or "redirect" (on its way back to the upload page); src is
\* the image of pageImage, complete its complete property, and loading is
\* true while its load event is due; visible is the class 'visible' of the
\* overlay; listeners are the translations the pending once-only load
\* listeners render; zoom is the displayed size of the image against its own;
\* timers counts the pending timers of handleResize; settingsOpen is the
\* class 'open' of the settings panel; toast is the message of the toast
\* shown last and uncaught the error a handler of the page has thrown
MangaReader ==
  [page |-> "closed", seriesName |-> <<>>, files |-> null, currentPage |-> 0,
   src |-> null, complete |-> TRUE, loading |-> FALSE,
   isOverlayVisible |-> FALSE, visible |-> FALSE, listeners |-> <<>>,
   blocks |-> <<>>, separationEnabled |-> FALSE, originals |-> <<>>,
   zoom |-> 1, timers |-> 0,
   settings |-> [readingDirection |-> "ltr", translationStyle |-> "overlay",
                 translationOpacity |-> 80, textSize |-> 16,
                 fitToWidth |-> TRUE, hideUI |-> FALSE],
   settingsOpen |-> FALSE, toast |-> null, uncaught |-> null]

Init ==
  /\ FileManagerInit
  /\ StoreInit
  /\ SeparationInit
  /\ reader = MangaReader
  /\ storage = newStorageManager(<<>>, "ok")
  /\ currentSeriesData = null
  /\ fit = NoFit

\* ------------------------------------------------------------------------
\* processZipFile
\* ------------------------------------------------------------------------

\* the flag cleared on the success path only
finallyProcessing_OnReturnOnly(error) == error # NoError

\* the finally block of processZipFile: the flag after the run ended with
\* error (NoError for a run that returned)
finallyProcessing(error) == FALSE

\* the accumulator of the previous upload kept
freshFiles_Keep(cf) == cf

\* the accumulator processZipFile starts a run with
freshFiles(cf) == EmptyFiles

\* the report that the run is complete, made where the validation of the
\* structure found no error
completeReport(error) ==
  IF error = NoError THEN <<Report(100, "complete")>> ELSE <<>>

\* the run of invocation r ends: it throws error, or returns when error is
\* NoError, after these calls of the progress callback
Settle(r, error, reports) ==
  /\ processing' = finallyProcessing(error)
  /\ run' = [run EXCEPT ![r].pc = "idle", ![r].error = error,
                        ![r].reported = @ \o reports]
  /\ result' = [result EXCEPT ![r] = IF error = NoError THEN "success" ELSE error]

\* processZipFile(file) up to its first await
ProcessZipFile(r, file) ==
  /\ r = NextCall
  /\ IF processing
     THEN /\ result' = [result EXCEPT ![r] = Err_Processing]
          /\ UNCHANGED <<processing, currentFiles, run>>
     ELSE /\ currentFiles' = freshFiles(currentFiles)
          /\ IF validateZipFile(file) # NoError
             THEN /\ processing' = finallyProcessing(validateZipFile(file))
                  /\ run' = [run EXCEPT ![r] =
                               Invocation("idle", file, 0, validateZipFile(file))]
                  /\ result' = [result EXCEPT ![r] = validateZipFile(file)]
             ELSE /\ processing' = TRUE
                  /\ run' = [run EXCEPT ![r] =
                               [Invocation("loading", file, 0, NoError)
                                  EXCEPT !.reported = <<Report(10, "reading")>>]]
                  /\ result' = [result EXCEPT ![r] = "pending"]
  /\ UNCHANGED <<storeVars, viewVars, storage, currentSeriesData>>

\* the loop of extractFiles goes on with currentFiles = cf, up to its next
\* await or to the end of extractFiles, after this call of the progress
\* callback
ExtractOn(r, cf, report) ==
  /\ currentFiles' = cf
  /\ \E es \in LoopRuns(run[r].file.files, run[r].file.totalFiles) :
       LET files == run[r].file.files \o es
           reportsOf(passed) ==
             run[r].reported \o <<report>>
               \o processingReports(passed, NumCounted(run[r].file.files),
                                    run[r].file.totalFiles)
       IN  IF es # <<>> /\ IsAwaited(es[Len(es)])
           THEN run' = [run EXCEPT ![r].pc = "extracting",
                                   ![r].idx = Len(files),
                                   ![r].file.files = files,
                                   ![r].reported =
                                      reportsOf(SubSeq(es, 1, Len(es) - 1))]
           ELSE run' = [run EXCEPT ![r].pc = "extracted",
                                   ![r].idx = Len(files) + 1,
                                   ![r].file.files = files,
                                   ![r].error = noImagesError(cf),
                                   ![r].reported = reportsOf(es)]
  /\ UNCHANGED <<processing, result>>

\* zip.loadAsync settles: processZipFile throws, or calls extractFiles,
\* which runs up to its first await
LoadAsyncSettles(r) ==
  /\ run[r].pc = "loading"
  /\ UNCHANGED <<storeVars, viewVars, storage, currentSeriesData>>
  /\ IF ~run[r].file.readable
     THEN Settle(r, Err_Decode, <<>>) /\ UNCHANGED currentFiles
     ELSE IF run[r].file.totalFiles = 0
          THEN /\ run' = [run EXCEPT ![r].pc = "extracted",
                                     ![r].error = Err_EmptyZip,
                                     ![r].reported =
                                        Append(@, Report(30, "extracting"))]
               /\ UNCHANGED <<processing, currentFiles, result>>
          ELSE ExtractOn(r, currentFiles, Report(30, "extracting"))

\* zipEntry.async settles for the awaited entry: the entry is processed and
\* the loop goes on to the next await or to the end of extractFiles
EntryRead(r) ==
  /\ run[r].pc = "extracting"
  /\ UNCHANGED <<storeVars, viewVars, storage, currentSeriesData>>
  /\ ExtractOn(r, processEntry(currentFiles, run[r].file.files[run[r].idx]),
               Report(fileProgress(NumCounted(run[r].file.files),
                                   run[r].file.totalFiles), "processing"))

\* extractFiles has settled and processZipFile resumes: it rethrows, or
\* matches, validates and returns
ExtractFilesSettled(r) ==
  /\ run[r].pc = "extracted"
  /\ UNCHANGED <<storeVars, viewVars, storage, currentSeriesData>>
  /\ IF run[r].error # NoError
     THEN Settle(r, run[r].error, <<>>) /\ UNCHANGED currentFiles
     ELSE /\ currentFiles' = matchFiles(currentFiles)
          /\ Settle(r, validateFileStructure(matchFiles(currentFiles)),
                    <<Report(80, "matching"), Report(90, "validating")>>
                      \o completeReport(validateFileStructure(matchFiles(currentFiles))))

\* clear without its guard on the processing flag
clear_Unguarded(cf, proc) == EmptyFiles

\* FileManager.clear: currentFiles after it
clear(cf, proc) == IF proc THEN cf ELSE EmptyFiles

Clear ==
  /\ currentFiles' = clear(currentFiles, processing)
  /\ UNCHANGED <<processing, run, result>>
  /\ UNCHANGED <<storeVars, viewVars, storage, currentSeriesData>>

\* ------------------------------------------------------------------------
\* IndexedDBManager and startReading
\* ------------------------------------------------------------------------

\* the clock advances
Tick ==
  /\ \E t \in Times : t > now /\ now' = t
  /\ UNCHANGED <<db, mangaSeries, transactions, settled, lastStored,
                 progress, app>>
  /\ UNCHANGED <<fileManagerVars, viewVars, storage, currentSeriesData>>

\* IndexedDBManager.init: the open request succeeds
InitDB ==
  /\ ~db
  /\ db' = TRUE
  /\ UNCHANGED <<mangaSeries, transactions, now, settled, lastStored,
                 progress, app>>
  /\ UNCHANGED <<fileManagerVars, viewVars, storage, currentSeriesData>>

\* a call of storeSeries, getSeries or deleteSeries up to the return of its
\* promise: it throws when the database is not open, else it creates the
\* transaction and its request
Call(op, name, value) ==
  /\ Len(transactions) <= MaxPending
  /\ IF ~db
     THEN /\ settled' = Settled("rejected", null)
          /\ UNCHANGED transactions
     ELSE /\ transactions' =
               Append(transactions, Transaction(op, name, value, "api"))
          /\ UNCHANGED settled
  /\ UNCHANGED <<db, mangaSeries, now, lastStored, progress, app>>
  /\ UNCHANGED <<fileManagerVars, viewVars, storage, currentSeriesData>>

\* IndexedDBManager.storeSeries(name, files)
StoreSeries(name, files) == Call("put", name, SeriesData(name, files, now))

\* IndexedDBManager.getSeries(name)
GetSeries(name) == Call("get", name, NoRecord)

\* IndexedDBManager.deleteSeries(name)
DeleteSeries(name) == Call("delete", name, NoRecord)

\* the promise of the transaction's call, as startReading awaits it
AppPromise(tx, outcome) ==
  IF tx.by = "app" THEN [app EXCEPT !.stored = outcome] ELSE app

\* the state of the transaction of startReading's call
AppTransaction(a, tx, state) ==
  IF tx.by = "app" THEN [a EXCEPT !.tx = state] ELSE a

\* the promise a caller holds settles; the promise of the deleteSeries that
\* getSeries calls is held by nobody
Settle_(tx, outcome, value) ==
  IF tx.by = "expiry" THEN settled ELSE Settled(outcome, value)

\* storeSeries resolving as soon as the put request has succeeded
onPutSuccess_Resolve(promise) == "resolved"

\* request.onsuccess of storeSeries: the promise is left as it is
onPutSuccess(promise) == promise

\* request.onsuccess of getSeries for the record found (null for none): the
\* value the promise resolves with
getSeriesResult(found, t) ==
  IF found # null /\ hasExpired(found[1], t) THEN null ELSE found

\* the request of the oldest transaction succeeds and its success handler
\* runs; a get or a delete transaction ends with it
RequestSucceeds ==
  /\ transactions # <<>>
  /\ ~Head(transactions).accepted
  /\ LET tx == Head(transactions)
     IN  CASE tx.op = "put" ->
                /\ transactions' = [transactions EXCEPT ![1].accepted = TRUE]
                /\ app' = AppTransaction(AppPromise(tx, onPutSuccess(app.stored)),
                                         tx, "accepted")
                /\ settled' =
                     IF onPutSuccess("pending") # "pending"
                     THEN Settle_(tx, onPutSuccess("pending"), null)
                     ELSE settled
                /\ UNCHANGED <<mangaSeries, lastStored>>
           [] tx.op = "get" ->
                LET found == get(mangaSeries, tx.name)
                IN  /\ transactions' =
                         IF found # null /\ hasExpired(found[1], now)
                         THEN Append(Tail(transactions),
                                     Transaction("delete", tx.name, NoRecord,
                                                 "expiry"))
                         ELSE Tail(transactions)
                    /\ settled' =
                         Settle_(tx, "resolved", getSeriesResult(found, now))
                    /\ UNCHANGED <<mangaSeries, lastStored, app>>
           [] tx.op = "delete" ->
                /\ transactions' = Tail(transactions)
                /\ mangaSeries' = delete(mangaSeries, tx.name)
                /\ lastStored' = [lastStored EXCEPT ![tx.name] = null]
                /\ settled' = Settle_(tx, "resolved", null)
                /\ UNCHANGED app
  /\ UNCHANGED <<db, now, progress>>
  /\ UNCHANGED <<fileManagerVars, viewVars, storage, currentSeriesData>>

\* the request of the oldest transaction fails: its error handler rejects
\* the promise (for a put, the transaction's error handler after it) and the
\* transaction is aborted
RequestFails ==
  /\ transactions # <<>>
  /\ ~Head(transactions).accepted
  /\ LET tx == Head(transactions)
     IN  /\ transactions' = Tail(transactions)
         /\ settled' = Settle_(tx, "rejected", null)
         /\ app' = AppTransaction(AppPromise(tx, "rejected"), tx, "error")
  /\ UNCHANGED <<db, mangaSeries, now, lastStored, progress>>
  /\ UNCHANGED <<fileManagerVars, viewVars, storage, currentSeriesData>>

\* the transaction of an accepted put commits: transaction.oncomplete
\* resolves the promise
TransactionCompletes ==
  /\ transactions # <<>>
  /\ Head(transactions).accepted
  /\ LET tx == Head(transactions)
     IN  /\ transactions' = Tail(transactions)
         /\ mangaSeries' = put(mangaSeries, tx.value)
         /\ lastStored' = [lastStored EXCEPT ![tx.name] = Some(tx.value)]
         /\ settled' = Settle_(tx, "resolved", null)
         /\ app' = AppTransaction(AppPromise(tx, "resolved"), tx, "complete")
  /\ UNCHANGED <<db, now, progress>>
  /\ UNCHANGED <<fileManagerVars, viewVars, storage, currentSeriesData>>

\* the transaction of an accepted put is aborted when it commits (the quota
\* is exceeded, the disk fails): an abort event is fired at the transaction,
\* for which storeSeries has no handler
TransactionAborts ==
  /\ transactions # <<>>
  /\ Head(transactions).accepted
  /\ LET tx == Head(transactions)
     IN  /\ transactions' = Tail(transactions)
         /\ app' = AppTransaction(app, tx, "aborted")
  /\ UNCHANGED <<db, mangaSeries, now, settled, lastStored, progress>>
  /\ UNCHANGED <<fileManagerVars, viewVars, storage, currentSeriesData>>

\* MangaReaderApp.startReading up to its await of storeSeries, for the name
\* typed and seriesData, the value of this.currentSeriesData (null for none)
StartReading(typed, seriesData) ==
  /\ app.pc = "idle"
  /\ Len(transactions) <= MaxPending
  /\ LET checked == seriesName(typed)
         name    == checked.value
     IN  IF seriesData = null
         THEN /\ app' = App("idle", app.name, "none", "none", Err_NoData)
              /\ UNCHANGED <<transactions, progress, settled>>
         ELSE IF ~checked.valid
         THEN /\ app' = App("idle", app.name, "none", "none", checked.error)
              /\ UNCHANGED <<transactions, progress, settled>>
         ELSE /\ progress' =
                   saveProgress(progress, name,
                     ProgressData(0, seriesData[1].stats.imageCount))
              /\ IF ~db
                 THEN /\ app' = App("storing", name, "rejected", "none", NoError)
                      /\ UNCHANGED <<transactions, settled>>
                 ELSE /\ app' = App("storing", name, "pending", "pending", NoError)
                      /\ transactions' =
                           Append(transactions,
                                  Transaction("put", name,
                                              SeriesData(name, seriesData[1], now),
                                              "app"))
                      /\ UNCHANGED settled
  /\ UNCHANGED <<db, mangaSeries, now, lastStored>>
  /\ UNCHANGED <<fileManagerVars, viewVars, storage, currentSeriesData>>

\* startReading resumes when storeSeries has settled: it goes on to wait for
\* the timer, or catches the error and shows it
StartReadingResumes ==
  /\ app.pc = "storing"
  /\ app.stored # "pending"
  /\ app' = IF app.stored = "resolved"
            THEN [app EXCEPT !.pc = "waiting"]
            ELSE [app EXCEPT !.pc = "idle", !.error = Err_StartReading]
  /\ UNCHANGED <<db, mangaSeries, transactions, now, settled, lastStored,
                 progress>>
  /\ UNCHANGED <<fileManagerVars, viewVars, storage, currentSeriesData>>

\* the timer of startReading fires: the page navigates to the reader
Navigate ==
  /\ app.pc = "waiting"
  /\ app' = [app EXCEPT !.pc = "navigated"]
  /\ UNCHANGED <<db, mangaSeries, transactions, now, settled, lastStored,
                 progress>>
  /\ UNCHANGED <<fileManagerVars, viewVars, storage, currentSeriesData>>

\* StorageManager.saveProgress(name, progressData), as a reader calls it
SaveProgress(name, progressData) ==
  /\ progress' = saveProgress(progress, name, progressData)
  /\ UNCHANGED <<db, mangaSeries, transactions, now, settled, lastStored, app>>
  /\ UNCHANGED <<fileManagerVars, viewVars, storage, currentSeriesData>>

\* renderTranslations has replaced the overlay's blocks by those of a layout
\* (entries of _originalPositions for the replaced elements are left out:
\* they are written to elements that are no longer in the document) and
\* calls applySeparation when separation is enabled
Render(layout) ==
  /\ ~sep.running
  /\ sep' = [sep EXCEPT !.rendered = layout.blocks,
                        !.overlayRect = layout.overlayRect,
                        !.s = Separation(layout.blocks, <<>>),
                        !.running = sep.enabled /\ layout.blocks # <<>>]
  /\ UNCHANGED <<fileManagerVars, storeVars, reader, fit, storage, currentSeriesData>>

\* toggleSeparation turning separation on, up to the loops of
\* applySeparation
SeparationOn ==
  /\ ~sep.running
  /\ ~sep.enabled
  /\ sep' = [sep EXCEPT !.enabled = TRUE,
                        !.s = Separation(sep.s.blocks, sep.s.originals),
                        !.running = sep.s.blocks # <<>>]
  /\ UNCHANGED <<fileManagerVars, storeVars, reader, fit, storage, currentSeriesData>>

\* one iteration of the outer loop of applySeparation
SweepStep ==
  /\ sep.running
  /\ ~loopEnds(sep.s)
  /\ sep' = [sep EXCEPT !.s = Sweep(sep.s, sep.overlayRect)]
  /\ UNCHANGED <<fileManagerVars, storeVars, reader, fit, storage, currentSeriesData>>

\* the outer loop ends and applySeparation returns
SeparationReturns ==
  /\ sep.running
  /\ loopEnds(sep.s)
  /\ sep' = [sep EXCEPT !.running = FALSE]
  /\ UNCHANGED <<fileManagerVars, storeVars, reader, fit, storage, currentSeriesData>>

\* toggleSeparation turning separation off: restoreOriginalPositions
SeparationOff ==
  /\ ~sep.running
  /\ sep.enabled
  /\ sep' = [sep EXCEPT !.enabled = FALSE,
                        !.s.blocks = restoreOriginalPositions(sep.s.blocks,
                                                              sep.s.originals),
                        !.s.originals = <<>>]
  /\ UNCHANGED <<fileManagerVars, storeVars, reader, fit, storage, currentSeriesData>>

\* the reader's blocks under renders and toggles of separation
SeparationNext ==
  \/ \E layout \in Layouts : Render(layout)
  \/ SeparationOn
  \/ SweepStep
  \/ SeparationReturns
  \/ SeparationOff

SeparationSpec == Init /\ [][SeparationNext]_vars

\* ------------------------------------------------------------------------
\* MangaReader: pages, translation overlay and reading progress
\* ------------------------------------------------------------------------

\* the once-only load listeners that may be pending
MaxListeners == 2

\* the timers of handleResize that may be pending
MaxTimers == 1

\* this.files.matched
matchedOf(r) == IF r.files = null THEN <<>> ELSE r.files[1].matched

\* the guard of goToPage and loadCurrentPage on a page index
inRange(r, pageIndex) ==
  r.files # null /\ pageIndex >= 0 /\ pageIndex < Len(matchedOf(r))

\* this.files.matched[this.currentPage], where the index is in range
currentPageOf(r) == matchedOf(r)[r.currentPage + 1]

\* page && page.hasTranslation for this.files.matched[this.currentPage]
hasTranslationAt(r) ==
  inRange(r, r.currentPage) /\ currentPageOf(r).hasTranslation

\* getBoundingClientRect of the image, which the overlay covers: a page of
\* 800 x 1200 pixels displayed at a zoom
imgRect(zoom) ==
  [width |-> 800 * zoom * Unit, height |-> 1200 * zoom * Unit]

\* the zooms a window size displays the image at
Zooms == {1, 2}

\* a line of a block joins to no text: '' and null do
IsBlankLine(v) == v.t \in {"undefined", "null"} \/ (v.t = "string" /\ v.n = 0)

\* block.lines.join(' ').trim() of a block with lines is not empty
hasText(block) ==
  /\ Truthy(block.lines) /\ block.lines.n # 0
  /\ \E i \in 1..Len(block.lines.items) : ~IsBlankLine(block.lines.items[i])

\* the element renderTranslations creates for a block: its left and top,
\* and the text area as its size
renderBlock(block, mokuroData, rect) ==
  LET x      == block.box.items[1].n
      y      == block.box.items[2].n
      width  == block.box.items[3].n
      height == block.box.items[4].n
      scaledWidth  == (width * rect.width) \div mokuroData.img_width.n
      scaledHeight == (height * rect.height) \div mokuroData.img_height.n
      offsetLeft == MathMin((scaledWidth * 15) \div 100, 15 * Unit)
      offsetUp   == MathMin((scaledHeight * 15) \div 100, 15 * Unit)
      finalX == (x * rect.width) \div mokuroData.img_width.n - offsetLeft
      finalY == (y * rect.height) \div mokuroData.img_height.n - offsetUp
  IN  Element(finalX, finalY, (scaledWidth * 9) \div 10,
              (scaledHeight * 9) \div 10, <<x, y, width, height>>)

\* the forEach of renderTranslations: blocks without text are skipped
RECURSIVE renderBlocks(_, _, _)
renderBlocks(blocks, mokuroData, rect) ==
  IF blocks = <<>> THEN <<>>
  ELSE (IF hasText(Head(blocks))
        THEN <<renderBlock(Head(blocks), mokuroData, rect)>> ELSE <<>>)
       \o renderBlocks(Tail(blocks), mokuroData, rect)

\* MangaReader.renderTranslations: the blocks rendered before are removed
\* (the entries _originalPositions holds for them belong to no element of
\* the document and are left out)
renderTranslations(r, mokuroData) ==
  IF mokuroData.t # "object" \/ ~Truthy(mokuroData.blocks) THEN r
  ELSE LET rect == imgRect(r.zoom)
           els  == renderBlocks(mokuroData.blocks.items, mokuroData, rect)
           s    == applySeparation(els, <<>>, rect)
       IN  IF r.separationEnabled
           THEN [r EXCEPT !.blocks = s.blocks, !.originals = s.originals]
           ELSE [r EXCEPT !.blocks = els, !.originals = <<>>]

\* MangaReader.loadPageTranslations
loadPageTranslations(r, page) ==
  LET cleared == [r EXCEPT !.blocks = <<>>, !.originals = <<>>]
  IN  IF ~page.hasTranslation \/ page.translation = null
      THEN [cleared EXCEPT !.visible = FALSE]
      ELSE IF cleared.complete
      THEN renderTranslations(cleared, page.translation[1].data)
      ELSE [cleared EXCEPT !.listeners = Append(@, page.translation[1].data)]

\* what pageImage.complete may read right after src is set: false, or still
\* true where the image shown before was complete
completeAfterSrc(r) == IF r.complete THEN BOOLEAN ELSE {FALSE}

\* MangaReader.loadPageImage: complete is what pageImage.complete reads once
\* src is set
loadPageImage(r, page, complete) ==
  [r EXCEPT !.src = Some(page.image), !.complete = complete, !.loading = TRUE]

\* MangaReader.loadCurrentPage
loadCurrentPage(r, complete) ==
  IF ~inRange(r, r.currentPage) THEN r
  ELSE loadPageTranslations(loadPageImage(r, currentPageOf(r), complete),
                            currentPageOf(r))

\* the re-render of onImageLoad, applySettings and the timer of handleResize
renderIfVisible(r) ==
  IF r.isOverlayVisible /\ hasTranslationAt(r)
  THEN renderTranslations(r, currentPageOf(r).translation[1].data)
  ELSE r

\* MangaReader.onImageLoad
onImageLoad(r) == renderIfVisible(r)

\* the once-only load listeners of loadPageTranslations, in the order they
\* were added
RECURSIVE runListeners(_, _)
runListeners(r, listeners) ==
  IF listeners = <<>> THEN r
  ELSE runListeners(renderTranslations(r, Head(listeners)), Tail(listeners))

\* MangaReader.toggleOverlay
toggleOverlay(r) ==
  LET t == [r EXCEPT !.isOverlayVisible = ~r.isOverlayVisible,
                     !.visible = ~r.isOverlayVisible]
  IN  IF t.isOverlayVisible /\ hasTranslationAt(t)
         /\ currentPageOf(t).translation # null
      THEN renderTranslations([t EXCEPT !.blocks = <<>>, !.originals = <<>>],
                              currentPageOf(t).translation[1].data)
      ELSE t

\* MangaReader.toggleSeparation
toggleSeparation(r) ==
  IF ~r.separationEnabled
  THEN LET s == applySeparation(r.blocks, r.originals, imgRect(r.zoom))
       IN  [r EXCEPT !.separationEnabled = TRUE, !.blocks = s.blocks,
                     !.originals = s.originals]
  ELSE [r EXCEPT !.separationEnabled = FALSE,
                 !.blocks = restoreOriginalPositions(r.blocks, r.originals),
                 !.originals = <<>>]

\* MangaReader.applySettings
applySettings(r) == renderIfVisible(r)

\* MangaReader.saveProgress: the progress object after it
MangaReader_saveProgress(stored, r) ==
  IF r.seriesName # <<>> /\ r.files # null
  THEN saveProgress(stored, r.seriesName,
                    ProgressData(r.currentPage, Len(matchedOf(r))))
  ELSE stored

\* progress?.currentPage || 0
currentPageOr0(found) ==
  IF found = null THEN 0
  ELSE IF found[1].currentPage = NoNumber THEN 0
  ELSE found[1].currentPage

\* MangaReader.goToPage: the reader after loadCurrentPage
goToPage(r, pageIndex, complete) ==
  IF ~inRange(r, pageIndex) THEN r
  ELSE loadCurrentPage([r EXCEPT !.currentPage = pageIndex], complete)

\* the three pages of a series whose first page has no translation, whose
\* second has two blocks that overlap and one without text, and whose third
\* has one block
Name_z_json == <<"z", ".", "j", "s", "o", "n">>

NearBox == Arr(<<Num(20), Num(30), Num(30), Num(40)>>)

Upload_Mixed ==
  Upload(<<ImageEntry(Name_e_webp, 3000),
           ImageEntry(Name_p2_jpg, 1000),
           JsonEntry(Name_p2_json,
                     Text(TRUE, 300,
                          Doc(Num(800), Num(1200),
                              <<Block(GoodBox, GoodLines),
                                Block(NearBox, Arr(<<Str(0)>>)),
                                Block(NearBox, GoodLines)>>))),
           ImageEntry(Name_z_png, 2000),
           JsonEntry(Name_z_json,
                     Text(TRUE, 100,
                          Doc(Num(800), Num(1200),
                              <<Block(NearBox, GoodLines)>>)))>>)

Name_x == <<"x">>

\* the series parameter of the reader's URL: three stored series, one that
\* is not stored, and none
ReaderNames == {Name_A_b, Name_a_b, Str_proto, Name_x, <<>>}

\* the page indices goToPage is called with
PageIndices == -1 .. 3

\* the sessions of three startReading calls, the last for 'A b', none of
\* them expired, and the progress they saved
ReaderInit ==
  /\ FileManagerInit
  /\ SeparationInit
  /\ reader = MangaReader
  /\ storage = newStorageManager(<<>>, "ok")
  /\ currentSeriesData = null
  /\ fit = NoFit
  /\ db = FALSE
  /\ mangaSeries = {SeriesData(Name_a_b, Upload_Short, 0),
                    SeriesData(Str_proto, Upload_Long, 0),
                    SeriesData(Name_A_b, Upload_Mixed, 0)}
  /\ transactions = <<>>
  /\ now = 0
  /\ settled = NothingSettled
  /\ lastStored = [name \in SessionNames |->
                     Some(SeriesData(name, IF name = Name_a_b THEN Upload_Short
                                           ELSE Upload_Mixed, 0))]
  /\ progress =
       saveProgress(
         saveProgress(
           saveProgress(<<>>, Name_a_b, ProgressData(0, 1)),
           Str_proto, ProgressData(0, 3)),
         Name_A_b, ProgressData(0, 3))
  /\ app = App("idle", <<>>, "none", "none", NoError)

\* the messages showToast is called with
Toast_NoData     == "No manga data found. Upload files from the main page first."
Toast_Expired    == "Session expired or data not found. Please re-upload your files."
Toast_LoadFailed == "Failed to load series data. Please re-upload."
Toast_Reset      == "Reading progress reset"

\* MangaReader.loadSettings: { ...this.settings, ...savedSettings }
loadSettings(r, st) == [r EXCEPT !.settings = Spread(r.settings, getSettings(st))]

\* the reader loadSeriesData leaves when it returns false: no files, the
\* toast it has shown (none where it has shown none) and the redirect due
failedToLoad(name, toast) ==
  loadSettings([MangaReader EXCEPT !.page = "redirect", !.seriesName = name,
                                   !.toast = toast],
               storage)

\* new MangaReader() and init() on reader.html?series=name: loadSeriesData,
\* loadSettings, bindEvents, initializeOverlayState and loadCurrentPage
Open(name) ==
  /\ reader.page = "closed"
  /\ LET found      == get(mangaSeries, name)
         seriesData == getSeriesResult(found, now)
         listed     == name # <<>> /\ getAllKeys(mangaSeries) # {}
         opened     == loadSettings(
                         [MangaReader EXCEPT
                            !.page = "ready",
                            !.seriesName = name,
                            !.files = Some(seriesData[1].files),
                            !.currentPage =
                              currentPageOr0(getProgress(progress, name))],
                         storage)
     IN  /\ db' = (db \/ name # <<>>)
         /\ transactions' =
              IF listed /\ found # null /\ seriesData = null
              THEN Append(transactions,
                          Transaction("delete", name, NoRecord, "expiry"))
              ELSE transactions
         /\ IF name = <<>>
            THEN reader' = failedToLoad(name, null)
            ELSE IF ~listed
            THEN reader' = failedToLoad(name, Some(Toast_NoData))
            ELSE IF seriesData = null
            THEN reader' = failedToLoad(name, Some(Toast_Expired))
            ELSE \E complete \in completeAfterSrc(opened) :
                   reader' = loadCurrentPage(applySettings(opened), complete)
  /\ UNCHANGED <<mangaSeries, now, settled, lastStored, progress, app>>
  /\ UNCHANGED <<fileManagerVars, sep, fit, storage, currentSeriesData>>

\* init, listAllSeries or getSeries rejects and loadSeriesData catches the
\* error
OpenFails(name) ==
  /\ reader.page = "closed"
  /\ name # <<>>
  /\ reader' = failedToLoad(name, Some(Toast_LoadFailed))
  /\ UNCHANGED <<storeVars, fileManagerVars, sep, fit, storage, currentSeriesData>>

\* redirectToUpload: the reader page is left; beforeunload saves nothing, as
\* this.files is not set
Redirect ==
  /\ reader.page = "redirect"
  /\ reader' = MangaReader
  /\ progress' = MangaReader_saveProgress(progress, reader)
  /\ UNCHANGED <<db, mangaSeries, transactions, now, settled, lastStored, app>>
  /\ UNCHANGED <<fileManagerVars, sep, fit, storage, currentSeriesData>>

\* the reader page is left or reloaded: beforeunload calls saveProgress
Close ==
  /\ reader.page = "ready"
  /\ reader' = MangaReader
  /\ progress' = MangaReader_saveProgress(progress, reader)
  /\ UNCHANGED <<db, mangaSeries, transactions, now, settled, lastStored, app>>
  /\ UNCHANGED <<fileManagerVars, sep, fit, storage, currentSeriesData>>

\* MangaReader.goToPage(pageIndex), as the page slider calls it
GoToPage(pageIndex) ==
  /\ reader.page = "ready"
  /\ Len(reader.listeners) < MaxListeners
  /\ \E complete \in completeAfterSrc(reader) :
       reader' = goToPage(reader, pageIndex, complete)
  /\ progress' = IF inRange(reader, pageIndex)
                 THEN MangaReader_saveProgress(progress, reader')
                 ELSE progress
  /\ UNCHANGED <<db, mangaSeries, transactions, now, settled, lastStored, app>>
  /\ UNCHANGED <<fileManagerVars, sep, fit, storage, currentSeriesData>>

\* MangaReader.previousPage
PreviousPage ==
  /\ reader.page = "ready"
  /\ Len(reader.listeners) < MaxListeners
  /\ IF reader.files = null \/ reader.currentPage <= 0
     THEN UNCHANGED <<reader, progress>>
     ELSE /\ \E complete \in completeAfterSrc(reader) :
               reader' = goToPage(reader, reader.currentPage - 1, complete)
          /\ progress' = IF inRange(reader, reader.currentPage - 1)
                         THEN MangaReader_saveProgress(progress, reader')
                         ELSE progress
  /\ UNCHANGED <<db, mangaSeries, transactions, now, settled, lastStored, app>>
  /\ UNCHANGED <<fileManagerVars, sep, fit, storage, currentSeriesData>>

\* MangaReader.nextPage
NextPage ==
  /\ reader.page = "ready"
  /\ Len(reader.listeners) < MaxListeners
  /\ IF reader.files = null
        \/ reader.currentPage >= Len(matchedOf(reader)) - 1
     THEN UNCHANGED <<reader, progress>>
     ELSE /\ \E complete \in completeAfterSrc(reader) :
               reader' = goToPage(reader, reader.currentPage + 1, complete)
          /\ progress' = IF inRange(reader, reader.currentPage + 1)
                         THEN MangaReader_saveProgress(progress, reader')
                         ELSE progress
  /\ UNCHANGED <<db, mangaSeries, transactions, now, settled, lastStored, app>>
  /\ UNCHANGED <<fileManagerVars, sep, fit, storage, currentSeriesData>>

\* the load event of pageImage: onImageLoad, bound first, then the
\* once-only listeners
ImageLoads ==
  /\ reader.page = "ready"
  /\ reader.loading
  /\ reader' =
       [runListeners(onImageLoad([reader EXCEPT !.loading = FALSE,
                                                !.complete = TRUE]),
                     reader.listeners)
          EXCEPT !.listeners = <<>>]
  /\ UNCHANGED <<storeVars, fileManagerVars, sep, fit, storage, currentSeriesData>>

\* a click on the overlay toggle
ToggleOverlay ==
  /\ reader.page = "ready"
  /\ reader' = toggleOverlay(reader)
  /\ UNCHANGED <<storeVars, fileManagerVars, sep, fit, storage, currentSeriesData>>

\* a click on the separation toggle
ToggleSeparation ==
  /\ reader.page = "ready"
  /\ reader' = toggleSeparation(reader)
  /\ UNCHANGED <<storeVars, fileManagerVars, sep, fit, storage, currentSeriesData>>

\* MangaReader.updateSetting: the setting is set and saved, then
\* applySettings
UpdateSetting(key, value) ==
  /\ reader.page = "ready"
  /\ reader' = applySettings([reader EXCEPT !.settings[key] = value])
  /\ storage' = saveSettings(storage, reader'.settings)
  /\ UNCHANGED <<storeVars, fileManagerVars, sep, fit, currentSeriesData>>

\* MangaReader.handleNavClick on a navigation zone: direction is 'prev' for
\* the left zone and 'next' for the right one
HandleNavClick(direction) ==
  LET actualDirection ==
        IF reader.settings.readingDirection = "rtl"
        THEN (IF direction = "prev" THEN "next" ELSE "prev")
        ELSE direction
  IN  IF actualDirection = "prev" THEN PreviousPage ELSE NextPage

\* the keydown listener of bindKeyboardEvents, for the arrow keys and the
\* space bar
KeyDown(key) ==
  /\ reader.page = "ready"
  /\ IF reader.settingsOpen THEN UNCHANGED vars
     ELSE IF key = "ArrowLeft"
     THEN (IF reader.settings.readingDirection = "rtl"
           THEN NextPage ELSE PreviousPage)
     ELSE IF key = "ArrowRight"
     THEN (IF reader.settings.readingDirection = "rtl"
           THEN PreviousPage ELSE NextPage)
     ELSE ToggleOverlay

\* MangaReader.openSettings
OpenSettings ==
  /\ reader.page = "ready"
  /\ reader' = [reader EXCEPT !.settingsOpen = TRUE]
  /\ UNCHANGED <<storeVars, fileManagerVars, sep, fit, storage, currentSeriesData>>

\* MangaReader.closeSettingsPanel
CloseSettingsPanel ==
  /\ reader.page = "ready"
  /\ reader' = [reader EXCEPT !.settingsOpen = FALSE]
  /\ UNCHANGED <<storeVars, fileManagerVars, sep, fit, storage, currentSeriesData>>

\* MangaReader.resetReadingProgress, the reset button of the settings
\* panel: confirmed is the answer to confirm(). StorageManager has no method
\* clearProgress (its methods on the progress are saveProgress, getProgress,
\* getAllProgress and removeProgress), so storageManager.clearProgress(...)
\* throws a TypeError and the handler ends there
ResetReadingProgress(confirmed) ==
  /\ reader.page = "ready"
  /\ reader.settingsOpen
  /\ reader' = IF confirmed THEN [reader EXCEPT !.uncaught = Some("TypeError")]
               ELSE reader
  /\ UNCHANGED <<storeVars, fileManagerVars, sep, fit, storage, currentSeriesData>>

\* the window is resized, the image is displayed at another zoom, and
\* handleResize sets its timer if the overlay is visible
HandleResize(zoom) ==
  /\ reader.page = "ready"
  /\ zoom # reader.zoom
  /\ reader.isOverlayVisible => reader.timers < MaxTimers
  /\ reader' = [reader EXCEPT !.zoom = zoom,
                              !.timers = IF reader.isOverlayVisible
                                         THEN @ + 1 ELSE @]
  /\ UNCHANGED <<storeVars, fileManagerVars, sep, fit, storage, currentSeriesData>>

\* a timer of handleResize fires
ResizeTimer ==
  /\ reader.page = "ready"
  /\ reader.timers > 0
  /\ reader' = [IF hasTranslationAt(reader)
                THEN renderTranslations(reader,
                       currentPageOf(reader).translation[1].data)
                ELSE reader
                  EXCEPT !.timers = reader.timers - 1]
  /\ UNCHANGED <<storeVars, fileManagerVars, sep, fit, storage, currentSeriesData>>

\* the options of the reading direction select
ReadingDirections == {"ltr", "rtl"}

\* the keys the keydown listener is modelled for
Keys == {"ArrowLeft", "ArrowRight", " "}

\* the reader page and what its user does
ReaderNext ==
  \/ \E name \in ReaderNames : Open(name)
  \/ \E name \in ReaderNames : OpenFails(name)
  \/ Redirect
  \/ Close
  \/ PreviousPage
  \/ NextPage
  \/ \E pageIndex \in PageIndices : GoToPage(pageIndex)
  \/ ImageLoads
  \/ ToggleOverlay
  \/ ToggleSeparation
  \/ \E value \in ReadingDirections : UpdateSetting("readingDirection", value)
  \/ \E direction \in {"prev", "next"} : HandleNavClick(direction)
  \/ \E key \in Keys : KeyDown(key)
  \/ OpenSettings
  \/ CloseSettingsPanel
  \/ \E confirmed \in BOOLEAN : ResetReadingProgress(confirmed)
  \/ \E zoom \in Zooms : HandleResize(zoom)
  \/ ResizeTimer

ReaderSpec == ReaderInit /\ [][ReaderNext]_vars

\* the session store as its callers use it
StoreNext ==
  \/ Tick
  \/ InitDB
  \/ \E name \in SessionNames, files \in Uploads : StoreSeries(name, files)
  \/ \E name \in SessionNames : GetSeries(name)
  \/ \E name \in SessionNames : DeleteSeries(name)
  \/ RequestSucceeds
  \/ RequestFails
  \/ TransactionCompletes
  \/ TransactionAborts

StoreSpec == Init /\ [][StoreNext]_vars

\* the upload page starting reading sessions and a reader saving progress,
\* over the session store
AppNext ==
  \/ Tick
  \/ InitDB
  \/ \E typed \in TypedNames, data \in {null} \cup {Some(u) : u \in Uploads} :
       StartReading(typed, data)
  \/ StartReadingResumes
  \/ Navigate
  \/ \E name \in ProgressNames, p \in Progresses : SaveProgress(name, p)
  \/ \E name \in SessionNames : GetSeries(name)
  \/ \E name \in SessionNames : DeleteSeries(name)
  \/ RequestSucceeds
  \/ RequestFails
  \/ TransactionCompletes
  \/ TransactionAborts

AppSpec == Init /\ [][AppNext]_vars

\* startReading is an async function: once the promise it awaits has
\* settled, it resumes
AppLiveSpec == AppSpec /\ WF_vars(StartReadingResumes)

Next ==
  \/ \E r \in Calls, file \in Files : ProcessZipFile(r, file)
  \/ \E r \in Calls : LoadAsyncSettles(r)
  \/ \E r \in Calls : EntryRead(r)
  \/ \E r \in Calls : ExtractFilesSettled(r)
  \/ Clear

Spec == Init /\ [][Next]_vars

\* ------------------------------------------------------------------------
\* Type invariant
\* ------------------------------------------------------------------------

TypeOK ==
  /\ processing \in BOOLEAN
  /\ \A r \in Calls :
       /\ run[r].pc \in {"idle", "loading", "extracting", "extracted"}
       /\ [run[r].file EXCEPT !.files = <<>>] \in Files
       /\ Len(run[r].file.files) <= run[r].file.totalFiles
       /\ DistinctNames(run[r].file.files)
       /\ run[r].idx \in 0..(MaxEntries + 1)

\* ------------------------------------------------------------------------
\* Definitions used by the properties
\* ------------------------------------------------------------------------

Min(S) == CHOOSE i \in S : \A j \in S : i <= j

\* the run of invocation r returns in this step
Returns(r) ==
  /\ run[r].pc = "extracted" /\ run[r].error = NoError
  /\ run'[r].pc = "idle" /\ result'[r] = "success"

\* some run has returned and its pages are still held
HoldsPages == ~processing /\ Len(currentFiles.matched) > 0

\* the entries of an archive that are image entries within the size limits
IsValidImageEntry(e) ==
  /\ IsAwaited(e) /\ isImage(e.name)
  /\ ~e.corrupt /\ e.size > 0 /\ e.size < MaxImageSize

\* the TranslationDocument shape: a version marker, a positive width and
\* height, blocks with a box of four numbers and a sequence of lines
IsTranslationDocument(data) ==
  /\ data.t = "object"
  /\ Truthy(data.version)
  /\ data.img_width.t = "number" /\ data.img_width.n > 0
  /\ data.img_height.t = "number" /\ data.img_height.n > 0
  /\ isArray(data.blocks)
  /\ \A i \in 1..Len(data.blocks.items) :
       LET block == data.blocks.items[i]
       IN  /\ isArray(block.box) /\ block.box.n = 4
           /\ \A k \in 1..Len(block.box.items) : block.box.items[k].t = "number"
           /\ isArray(block.lines)

\* the entries of an archive that are well-formed translation files of the
\* TranslationDocument shape
IsValidTranslationEntry(e) ==
  /\ IsAwaited(e) /\ ~isImage(e.name)
  /\ ~e.corrupt /\ e.text.wellFormed /\ IsTranslationDocument(e.text.value)

\* the names, path stripped, of a sequence of entries
CleanNames(entries) == [k \in 1..Len(entries) |-> cleanFilename(entries[k].name)]

Filenames(records) == [k \in 1..Len(records) |-> records[k].filename]

\* currentFiles after extractFiles has passed the first n entries of files,
\* nothing else touching the accumulator
RECURSIVE ExtractedFrom(_, _)
ExtractedFrom(files, n) ==
  IF n = 0 THEN EmptyFiles
  ELSE IF IsAwaited(files[n])
       THEN processEntry(ExtractedFrom(files, n - 1), files[n])
       ELSE ExtractedFrom(files, n - 1)

\* comparison of two digit runs as numbers
CompareNumbers(a, b) ==
  LET x == StripLeadingZeros(a)
      y == StripLeadingZeros(b)
  IN  IF Len(x) < Len(y) THEN -1
      ELSE IF Len(x) > Len(y) THEN 1
      ELSE ComparePrimary(x, y)

\* comparison of two file names, every digit run compared as a number and
\* every other character by its collation weight
RECURSIVE NaturalCompare(_, _)
NaturalCompare(a, b) ==
  IF a = <<>> /\ b = <<>> THEN 0
  ELSE IF a = <<>> THEN -1
  ELSE IF b = <<>> THEN 1
  ELSE IF IsDigit(Head(a)) /\ IsDigit(Head(b))
       THEN LET n == DigitRunLen(a)
                m == DigitRunLen(b)
                c == CompareNumbers(SubSeq(a, 1, n), SubSeq(b, 1, m))
            IN  IF c # 0 THEN c
                ELSE NaturalCompare(SubSeq(a, n + 1, Len(a)),
                                    SubSeq(b, m + 1, Len(b)))
  ELSE IF Rank(Head(a)) < Rank(Head(b)) THEN -1
  ELSE IF Rank(Head(a)) > Rank(Head(b)) THEN 1
  ELSE NaturalCompare(Tail(a), Tail(b))

\* ------------------------------------------------------------------------
\* Properties
\* ------------------------------------------------------------------------

\* C1: when a run matches the n extracted images, the matched sequence has
\* exactly n Pages, one for each image, and the Page at position k (from
\* zero) has pageIndex = k.
C1_OnePagePerImage ==
  [][\A r \in Calls :
       Returns(r) =>
         LET n       == Len(currentFiles.images)
             matched == currentFiles'.matched
         IN  /\ Len(matched) = n
             /\ \A k \in 1..n : matched[k].pageIndex = k - 1
             /\ {matched[k].image : k \in 1..n} = Range(currentFiles.images)
             /\ Cardinality({matched[k].image : k \in 1..n}) = n]_vars

\* a run returned a matched sequence of three Pages
C1_Witness ==
  /\ \E r \in Calls : result[r] = "success"
  /\ Len(currentFiles.matched) = 3

\* C2: the translation of every Page is the first translation whose
\* baseName equals the image's baseName; when there is none, the first one
\* whose normalized baseName equals the image's normalized baseName; when
\* there is none either, the Page has no translation and hasTranslation is
\* false. Matching fails for no input: no run ends with a matching or
\* structure error.
C2_ExactThenFuzzyFirstWins ==
  /\ \A r \in Calls : result[r] \notin {Err_NoImageFiles, Err_NoPages}
  /\ ~processing =>
       \A k \in 1..Len(currentFiles.matched) :
         LET page  == currentFiles.matched[k]
             trans == currentFiles.translations
             exact == {j \in 1..Len(trans) :
                         trans[j].baseName = page.image.baseName}
             fuzzy == {j \in 1..Len(trans) :
                         normalizeFilename(trans[j].baseName)
                           = normalizeFilename(page.image.baseName)}
         IN  IF exact # {} THEN page.translation = Some(trans[Min(exact)])
             ELSE IF fuzzy # {} THEN page.translation = Some(trans[Min(fuzzy)])
             ELSE page.translation = null /\ ~page.hasTranslation

\* a Page was paired with its exact match although a translation matching
\* only by normalized name comes earlier in the collection
C2_Witness ==
  /\ HoldsPages
  /\ \E k \in 1..Len(currentFiles.matched) :
       LET page  == currentFiles.matched[k]
           trans == currentFiles.translations
       IN  \E i, j \in 1..Len(trans) :
             /\ i < j
             /\ trans[i].baseName # page.image.baseName
             /\ normalizeFilename(trans[i].baseName)
                  = normalizeFilename(page.image.baseName)
             /\ trans[j].baseName = page.image.baseName
             /\ page.translation = Some(trans[j])

\* C3: the matched Pages are in natural-sort order of the image filenames:
\* no Page's filename sorts after the filename of a later Page when digit
\* runs are compared as numbers, whatever the length of the digit runs.
C3_NaturalOrder ==
  ~processing =>
    \A i, j \in 1..Len(currentFiles.matched) :
      i < j =>
        NaturalCompare(currentFiles.matched[i].image.filename,
                       currentFiles.matched[j].image.filename) <= 0

\* C4: the baseName of every extracted image and translation record is the
\* entry name with its directory path stripped and its recognized extension
\* removed.
C4_BaseNameWithoutPath ==
  \A k \in 1..Len(currentFiles.images \o currentFiles.translations) :
    LET record == (currentFiles.images \o currentFiles.translations)[k]
    IN  record.baseName = getBaseName(record.filename)

\* C5: every Page has hasTranslation = true exactly when its translation is
\* present, and a present translation is a record of the translations
\* collection that was extracted from the archive of the same run.
C5_TranslationFromSameExtraction ==
  ~processing =>
    \A k \in 1..Len(currentFiles.matched) :
      LET page == currentFiles.matched[k]
      IN  /\ page.hasTranslation <=> page.translation # null
          /\ page.translation # null =>
               /\ page.translation[1] \in Range(currentFiles.translations)
               /\ \E r \in Calls :
                    /\ result[r] = "success"
                    /\ \E i \in 1..Len(run[r].file.files) :
                         LET e == run[r].file.files[i]
                         IN  /\ cleanFilename(e.name) = page.translation[1].filename
                             /\ e.text.value = page.translation[1].data

\* a matched sequence holds a Page with a translation and one without
C5_Witness ==
  /\ HoldsPages
  /\ \E k \in 1..Len(currentFiles.matched) : currentFiles.matched[k].hasTranslation
  /\ \E k \in 1..Len(currentFiles.matched) : ~currentFiles.matched[k].hasTranslation

\* C6: when extractFiles has gone through a non-empty archive, the images
\* and the translations are exactly the valid entries of the archive, in
\* archive order (every failing entry skipped), and extractFiles succeeds
\* whenever the archive holds a valid image.
C6_ExactlyTheValidEntries ==
  \A r \in Calls :
    (run[r].pc = "extracted" /\ run[r].file.totalFiles > 0) =>
      /\ Filenames(currentFiles.images)
           = CleanNames(SelectSeq(run[r].file.files, IsValidImageEntry))
      /\ Filenames(currentFiles.translations)
           = CleanNames(SelectSeq(run[r].file.files, IsValidTranslationEntry))
      /\ (\E i \in 1..Len(run[r].file.files) :
            IsValidImageEntry(run[r].file.files[i])) => run[r].error = NoError

\* C7: extractFiles fails with the empty-archive error when the archive has
\* no entries; otherwise it fails with the no-images error exactly when no
\* entry of the archive is a valid image, and completes without error in
\* every other case.
C7_ExtractionErrors ==
  \A r \in Calls :
    run[r].pc = "extracted" =>
      LET files == run[r].file.files
          valid == {i \in 1..Len(files) : IsValidImageEntry(files[i])}
      IN  /\ Len(files) = run[r].file.totalFiles
          /\ run[r].error = IF Len(files) = 0 THEN Err_EmptyZip
                            ELSE IF valid = {} THEN Err_NoImages
                            ELSE NoError

\* extractFiles failed with the no-images error on an archive that yielded
\* a translation
C7_Witness ==
  \E r \in Calls :
    /\ run[r].pc = "extracted"
    /\ run[r].error = Err_NoImages
    /\ Len(currentFiles.translations) > 0

\* C8: every record of the translations collection has the
\* TranslationDocument shape: a version marker, a positive image width and
\* height, and blocks with a box of four numbers and a sequence of lines.
C8_TranslationsHaveDocumentShape ==
  \A k \in 1..Len(currentFiles.translations) :
    IsTranslationDocument(currentFiles.translations[k].data)

\* C9: at most one run is active; a step taken during a run that is not a
\* step of the run (a processZipFile call, a clear()) changes neither the
\* accumulator nor the flag, and a call it settles is rejected with the
\* already-processing error; so the accumulator of a run holds what its own
\* archive yielded and the run returns the pages matched from exactly that.
C9_SingleRun ==
  /\ [](/\ Cardinality({r \in Calls : Active(r)}) <= 1
        /\ \A r \in Calls :
             /\ run[r].pc = "extracting" =>
                  currentFiles = ExtractedFrom(run[r].file.files, run[r].idx - 1)
             /\ run[r].pc = "extracted" /\ run[r].file.totalFiles > 0 =>
                  currentFiles = ExtractedFrom(run[r].file.files,
                                               Len(run[r].file.files)))
  /\ [][/\ (processing /\ run' = run) =>
             /\ UNCHANGED <<processing, currentFiles>>
             /\ \A r \in Calls :
                  result'[r] # result[r] => result'[r] = Err_Processing
        /\ \A r \in Calls :
             Returns(r) =>
               currentFiles' = matchFiles(ExtractedFrom(run[r].file.files,
                                                        Len(run[r].file.files)))]_vars

\* a call was rejected while a run was extracting and held an image
C9_Witness ==
  /\ processing
  /\ \E r \in Calls : result[r] = Err_Processing
  /\ \E r \in Calls : run[r].pc = "extracting"
  /\ Len(currentFiles.images) > 0

\* C10: the processing flag is true exactly while a run is active: when a
\* run has ended, by returning or by throwing, the flag is false.
C10_FlagOnlyWhileRunning ==
  processing <=> \E r \in Calls : Active(r)

\* a run that had set the flag ended with the no-images error
C10_Witness ==
  /\ ~processing
  /\ \E r \in Calls : result[r] = Err_NoImages

\* c is num / den rounded to the nearest integer
IsRounded(c, num, den) ==
  2 * c * den - den <= 2 * num /\ 2 * num < 2 * c * den + den

GetSeriesResolves ==
  /\ transactions # <<>>
  /\ Head(transactions).op = "get"
  /\ transactions' \in
       {Tail(transactions),
        Append(Tail(transactions),
               Transaction("delete", Head(transactions).name, NoRecord, "expiry"))}
  /\ settled'.outcome = "resolved"

\* the name the oldest transaction is about
RequestedName == Head(transactions).name

RequestedHasExpired ==
  /\ get(mangaSeries, RequestedName) # null
  /\ hasExpired(get(mangaSeries, RequestedName)[1], now)

\* this step ends the deleteSeries that a getSeries called for an expired
\* record
ExpiryDeleteEnds ==
  /\ transactions # <<>>
  /\ Head(transactions).by = "expiry"
  /\ transactions' = Tail(transactions)

\* every stored series expires 24 hours after its upload date, and getSeries
\* never resolves with a series whose expiresAt has passed: for an expired
\* record it resolves with null
ExpiryKept ==
  [][ /\ \A r \in mangaSeries' : r.expiresAt = r.uploadDate + 24 * 60 * 60 * 1000
      /\ GetSeriesResolves /\ settled'.value # null
         => settled'.value[1].expiresAt >= now
      /\ GetSeriesResolves /\ RequestedHasExpired
         => settled'.value = null ]_vars

\* C13: a getSeries that finds an expired record removes the stored entry:
\* once the read has completed and the removal it started has ended, the
\* name is no longer among the stored keys
C13_ExpiredReadRemoves ==
  [][ExpiryDeleteEnds => RequestedName \notin getAllKeys(mangaSeries')]_vars

\* ------------------------------------------------------------------------
\* Starting a reading session (MangaReaderApp.startReading)
\* ------------------------------------------------------------------------

\* the promise of startReading's storeSeries is resolved only when the write
\* transaction has completed, never while the put request is merely
\* accepted, and startReading goes on to the reader only when it is resolved
ResolvedAfterCommit ==
  /\ app.stored = "resolved" => app.tx = "complete"
  /\ app.pc \in {"waiting", "navigated"} => app.stored = "resolved"

\* a write that fails with a request error is reported
RequestErrorReported == (app.tx = "error") ~> (app.error = Err_StartReading)

\* C14: storeSeries resolves only after the write transaction has completed
\* and startReading navigates only after storeSeries has resolved; when the
\* write fails, by an error of the request or by an abort of the
\* transaction, startReading does not navigate and reports the error
C14_CommitBeforeNavigate ==
  /\ []ResolvedAfterCommit
  /\ (app.tx \in {"error", "aborted"}) ~> (app.error = Err_StartReading)

\* ------------------------------------------------------------------------
\* Reading progress (StorageManager)
\* ------------------------------------------------------------------------

\* getProgress(name) after saveProgress(name, p) returns p's currentPage and
\* totalPages, for the names of names
RoundTrip(names) ==
  \A name \in names, p \in Progresses :
    LET read == getProgress(saveProgress(progress, name, p), name)
    IN  /\ read # null
        /\ read[1].currentPage = p.currentPage
        /\ read[1].totalPages = p.totalPages

\* two names with the same sanitized key share one record: after a save
\* under one and then a save under the other, both read the later save
SharedKey(names) ==
  \A n1 \in names, n2 \in names, p1 \in Progresses, p2 \in Progresses :
    sanitize(n1) = sanitize(n2) =>
      LET saved == saveProgress(saveProgress(progress, n1, p1), n2, p2)
      IN  /\ getProgress(saved, n1) = getProgress(saved, n2)
          /\ getProgress(saved, n1) = getProgress(saveProgress(progress, n2, p2), n2)

\* for the session names the round trip holds and the key is shared
ProgressOfSessionNames ==
  /\ RoundTrip(SessionNames)
  /\ SharedKey(SessionNames)
  /\ sanitize(Name_A_b) = sanitize(Name_a_b)

\* a step of the session store (a transaction is created or ends, a record
\* is stored or removed) other than startReading's own save leaves the
\* progress object as it is
ProgressFrame ==
  [][ (mangaSeries' # mangaSeries \/ transactions' # transactions)
      /\ ~(app.pc = "idle" /\ app'.pc = "storing")
      => progress' = progress ]_vars

\* C15: in every state, saveProgress(name, p) followed by getProgress(name)
\* returns p's currentPage and totalPages, and names with the same sanitized
\* key share one record that the later save overwrites
C15_ProgressPerKey ==
  /\ RoundTrip(ProgressNames)
  /\ SharedKey(ProgressNames)

\* ------------------------------------------------------------------------
\* Overlap separation (MangaReader.applySeparation, toggleSeparation)
\* ------------------------------------------------------------------------

\* the places of the overlapping pairs of blocks
OverlappingPairs(blocks) ==
  { p \in (DOMAIN blocks) \X (DOMAIN blocks) :
      p[1] < p[2] /\ _rectsOverlap(Rect(blocks[p[1]]), Rect(blocks[p[2]])) }

\* the element has used up its displacement of maxTotal pixels
Exhausted(s, k) == s.movedTotals[k] >= maxTotal * Unit

\* every half the loops have taken is a whole number of units
ExactHalves == sep.s.exact

\* this step is one sweep of the outer loop
IsSweep == sep'.s.iter = sep.s.iter + 1

ReturnsExhausted ==
  /\ sep.enabled /\ ~sep.running
  /\ sep.s.iter < maxIterations
  /\ \E p \in OverlappingPairs(sep.s.blocks) :
       Exhausted(sep.s, p[1]) /\ Exhausted(sep.s, p[2])

\* the position of an element
Position(el) == [left |-> el.left, top |-> el.top]

TotalPages == Len(matchedOf(reader))

\* the stored progress record of a series has this page and page count
StoredProgressIs(stored, name, pageIndex, totalPages) ==
  LET found == getProgress(stored, name)
  IN  /\ found # null
      /\ found[1].currentPage = pageIndex
      /\ found[1].totalPages = totalPages

\* what goToPage(pageIndex) is to do
GoToPageEffect(pageIndex) ==
  IF pageIndex < 0 \/ pageIndex >= TotalPages
  THEN /\ reader'.currentPage = reader.currentPage
       /\ reader'.src = reader.src
       /\ reader'.blocks = reader.blocks
       /\ progress' = progress
  ELSE /\ reader'.currentPage = pageIndex
       /\ StoredProgressIs(progress', reader.seriesName, pageIndex, TotalPages)

\* previousPage on page 0 and nextPage on the last page change nothing
EndPagesHold ==
  /\ PreviousPage /\ reader.currentPage = 0 => UNCHANGED <<reader, progress>>
  /\ NextPage /\ reader.currentPage = TotalPages - 1 =>
       UNCHANGED <<reader, progress>>

\* C16: goToPage(i) with i outside [0, totalPages) changes neither the
\* current page, the displayed image, the rendered blocks nor the stored
\* progress; with i inside, the current page is i afterwards and the stored
\* progress of the series has currentPage i and the number of pages as
\* totalPages; previousPage on page 0 and nextPage on the last page change
\* nothing
C16_GoToPage ==
  [][ /\ \A pageIndex \in PageIndices :
           GoToPage(pageIndex) => GoToPageEffect(pageIndex)
      /\ EndPagesHold ]_vars

\* the same for the series whose name is not __proto__
GoToPageOfOtherNames ==
  [][ /\ \A pageIndex \in PageIndices :
           GoToPage(pageIndex) /\ reader.seriesName # Str_proto =>
             GoToPageEffect(pageIndex)
      /\ EndPagesHold ]_vars

\* goToPage has gone to the last page of a series of three and the stored
\* progress says so
GoToPageReached ==
  /\ reader.page = "ready" /\ reader.currentPage = 2 /\ TotalPages = 3
  /\ StoredProgressIs(progress, reader.seriesName, 2, 3)

\* the currentPage of the stored progress record of a series, 0 if it has
\* none
StoredCurrentPage(stored, name) ==
  IF sanitize(name) \in DOMAIN stored
  THEN stored[sanitize(name)].currentPage ELSE 0

\* the reader displays the page of its series with this pageIndex
Displays(r, pageIndex) ==
  \E k \in 1..Len(matchedOf(r)) :
    /\ matchedOf(r)[k].pageIndex = pageIndex
    /\ r.src = Some(matchedOf(r)[k].image)

\* C17: a reader opened for a stored, unexpired session is ready with the
\* currentPage of the stored progress record of the series as its current
\* page, 0 if there is no record, and displays the page with that pageIndex
C17_OpenRestoresPage ==
  [][ \A name \in ReaderNames :
        Open(name) /\ reader'.page = "ready" =>
          /\ reader'.currentPage = StoredCurrentPage(progress, name)
          /\ Displays(reader', reader'.currentPage) ]_vars

\* the current page of an opened reader is the stored one, 0 without one
OpenRestoresCurrentPage ==
  [][ \A name \in ReaderNames :
        Open(name) /\ reader'.page = "ready" =>
          reader'.currentPage = StoredCurrentPage(progress, name) ]_vars

\* a reader has been opened on a page after the first and displays it
OpenedOnStoredPage ==
  /\ reader.page = "ready" /\ reader.currentPage > 0
  /\ reader.src # null /\ Displays(reader, reader.currentPage)
  /\ reader.loading /\ reader.listeners = <<>> /\ reader.blocks = <<>>
  /\ ~reader.isOverlayVisible /\ ~reader.complete

\* the translation data of the reader's current page
DataOf(r) == currentPageOf(r).translation[1].data

\* the boxes of the blocks with text of the current page's translation
RECURSIVE BoxesWithText(_)
BoxesWithText(blocks) ==
  IF blocks = <<>> THEN <<>>
  ELSE (IF hasText(Head(blocks))
        THEN <<<<Head(blocks).box.items[1].n, Head(blocks).box.items[2].n,
                 Head(blocks).box.items[3].n, Head(blocks).box.items[4].n>>>>
        ELSE <<>>)
       \o BoxesWithText(Tail(blocks))

ExpectedBoxes(r) ==
  IF hasTranslationAt(r) THEN BoxesWithText(DataOf(r).blocks.items) ELSE <<>>

BoxesOf(blocks) == [k \in DOMAIN blocks |-> blocks[k].box]

\* this step is one of the layout triggers
LayoutTrigger ==
  \/ ToggleOverlay \/ ImageLoads \/ ResizeTimer
  \/ \E value \in ReadingDirections : UpdateSetting("readingDirection", value)

\* toggleOverlay flips the visibility of the overlay
ToggleFlipsVisibility ==
  [][ ToggleOverlay => reader'.visible = ~reader.visible ]_vars

\* toggleOverlay flips isOverlayVisible and sets the class to it
ToggleFlipsFlag ==
  [][ ToggleOverlay =>
        /\ reader'.isOverlayVisible = ~reader.isOverlayVisible
        /\ reader'.visible = reader'.isOverlayVisible ]_vars

\* when toggleOverlay makes the overlay of a translated page visible, the
\* blocks are those of a layout pass on an empty overlay
ToggleLaysOutAfresh ==
  [][ ToggleOverlay /\ reader'.isOverlayVisible /\ hasTranslationAt(reader) =>
        reader'.blocks =
          renderTranslations([reader' EXCEPT !.blocks = <<>>,
                                             !.originals = <<>>],
                             DataOf(reader)).blocks ]_vars

\* after a layout trigger the overlay holds one block for each block with
\* text of the current page's translation, in their order, or nothing
\* while it is hidden
OverlayHoldsPageBlocks ==
  [][ LayoutTrigger =>
        \/ BoxesOf(reader'.blocks) = ExpectedBoxes(reader')
        \/ ~reader'.isOverlayVisible /\ reader'.blocks = <<>> ]_vars

\* a layout pass that follows a layout pass leaves the blocks where they are
LayoutIdempotent ==
  reader.page = "ready" /\ hasTranslationAt(reader) =>
    LET once == renderTranslations(reader, DataOf(reader))
    IN  renderTranslations(once, DataOf(reader)) = once

\* C18: toggleOverlay flips the visibility of the overlay and, when it
\* becomes visible, lays the page out afresh; after a layout trigger
\* (toggleOverlay, image load, resize timer, settings change) the overlay
\* holds exactly one block per translation block with text of the page;
\* and a second layout pass in a row leaves every block where it is, with
\* separation enabled too
C18_OverlayLayout ==
  /\ ToggleFlipsVisibility
  /\ ToggleLaysOutAfresh
  /\ OverlayHoldsPageBlocks
  /\ []LayoutIdempotent

\* the overlay of a translated page is visible with separation enabled and
\* the blocks a layout pass has separated
SeparatedLayoutShown ==
  /\ reader.page = "ready" /\ reader.visible /\ reader.separationEnabled
  /\ hasTranslationAt(reader)
  /\ Len(reader.blocks) = 2 /\ reader.originals # <<>>

\* ------------------------------------------------------------------------
\* Drift of separated blocks
\* ------------------------------------------------------------------------

Abs(n) == IF n < 0 THEN -n ELSE n

\* how far block k is from where it was rendered, on the axis on which it
\* is farther
Drift(k) ==
  MathMax(Abs(sep.s.blocks[k].left - sep.rendered[k].left),
          Abs(sep.s.blocks[k].top - sep.rendered[k].top))

\* no block is farther than maxTotal pixels from where it was rendered
DriftWithinBudget ==
  \A k \in DOMAIN sep.s.blocks : Drift(k) <= maxTotal * Unit

\* the steps applySeparation has counted for a block stay within maxTotal
MovedWithinBudget ==
  \A k \in DOMAIN sep.s.blocks : sep.s.movedTotals[k] <= maxTotal * Unit

\* in a sweep each pair a block is in steps it by at most half of
\* maxPairStep
SweepStepsBounded ==
  [][ IsSweep =>
        \A k \in DOMAIN sep.s.blocks :
          2 * (sep'.s.movedTotals[k] - sep.s.movedTotals[k])
            <= (Len(sep.s.blocks) - 1) * maxPairStep * Unit ]_vars

\* C21: in a sweep of applySeparation a pair is pushed apart by at most 6
\* pixels, half per member, and at every point of the run every block is at
\* most 24 pixels from the position it had before separation
C21_DriftBounded ==
  /\ SweepStepsBounded
  /\ []DriftWithinBudget

\* ------------------------------------------------------------------------
\* The overlay and the current page
\* ------------------------------------------------------------------------

\* no load event of the image is due
LoadsHandled == reader.page = "ready" /\ ~reader.loading

\* C22: once the pending load events are handled, the blocks the overlay
\* shows are those of the current page's translation, and none if the page
\* has no translation
C22_BlocksOfCurrentPage ==
  LoadsHandled /\ reader.visible =>
    BoxesOf(reader.blocks) = ExpectedBoxes(reader)

\* on a page with a translation the overlay holds the page's blocks once
\* the load events are handled
TranslatedPageBlocks ==
  LoadsHandled /\ hasTranslationAt(reader) =>
    BoxesOf(reader.blocks) = ExpectedBoxes(reader)

\* ------------------------------------------------------------------------
\* The expiry removal of getSeries and a newer session
\* ------------------------------------------------------------------------

\* the delete request that a getSeries started for an expired record
\* succeeds
ExpiryDeleteRuns ==
  /\ RequestSucceeds
  /\ Head(transactions).op = "delete"
  /\ Head(transactions).by = "expiry"

\* the record stored under the name of the oldest transaction has not
\* expired
StoredIsFresh ==
  /\ transactions # <<>>
  /\ get(mangaSeries, Head(transactions).name) # null
  /\ ~hasExpired(get(mangaSeries, Head(transactions).name)[1], now)

\* C23: the removal getSeries starts for an expired entry never deletes a
\* newer session: a session that storeSeries has stored stays in the store
\* until it has expired itself
C23_ExpiryRemovalSparesFresh ==
  [][ExpiryDeleteRuns => ~StoredIsFresh]_vars

\* ------------------------------------------------------------------------
\* The page index and the overlay flag of a loaded reader
\* ------------------------------------------------------------------------

\* C24: in a reader that has loaded a session the current page index is
\* within [0, totalPages) of that session, so a page is displayed
C24_PageIndexInRange ==
  reader.page = "ready" =>
    /\ inRange(reader, reader.currentPage)
    /\ reader.src # null

\* C25: the flag isOverlayVisible is true exactly when the overlay element
\* has the class 'visible'
C25_FlagAgreesWithOverlay ==
  reader.page = "ready" => (reader.isOverlayVisible <=> reader.visible)

\* ------------------------------------------------------------------------
\* Continue reading: a series uploaded again
\* ------------------------------------------------------------------------

\* a ReadingProgress is saved under this series name, on a page after the
\* first
HasSavedPage(stored, name) ==
  /\ sanitize(name) \in DOMAIN stored
  /\ stored[sanitize(name)].originalName = name
  /\ stored[sanitize(name)].currentPage > 0

\* C26: starting to read a series that is uploaded again under the name it
\* has a saved ReadingProgress for preserves the saved currentPage
C26_ReuploadKeepsPage ==
  [][ \A typed \in TypedNames, u \in Uploads :
        /\ StartReading(typed, Some(u))
        /\ seriesName(typed).valid
        /\ HasSavedPage(progress, seriesName(typed).value)
        => StoredCurrentPage(progress', seriesName(typed).value)
             = StoredCurrentPage(progress, seriesName(typed).value) ]_vars

\* ------------------------------------------------------------------------
\* StorageManager over localStorage
\* ------------------------------------------------------------------------

\* the text sizes a page sets
TextSizes == {16, 20}

\* a page is loaded: new StorageManager() over the localStorage as it is,
\* which does mode from then on
Reload(mode) ==
  /\ storage' = newStorageManager(storage.items, mode)
  /\ UNCHANGED <<fileManagerVars, storeVars, viewVars, currentSeriesData>>

\* localStorage starts to do mode (the quota is reached or freed, access is
\* blocked or allowed)
LocalStorage(mode) ==
  /\ mode # storage.mode
  /\ storage' = [storage EXCEPT !.mode = mode]
  /\ UNCHANGED <<fileManagerVars, storeVars, viewVars, currentSeriesData>>

\* storageManager.saveProgress(name, progressData)
SaveProgressItem(name, progressData) ==
  /\ storage' = StorageManager_saveProgress(storage, name, progressData)
  /\ UNCHANGED <<fileManagerVars, storeVars, viewVars, currentSeriesData>>

\* storageManager.setSetting(key, value)
SetSetting(key, value) ==
  /\ storage' = setSetting(storage, key, value)
  /\ UNCHANGED <<fileManagerVars, storeVars, viewVars, currentSeriesData>>

\* storageManager.saveSettings(settings)
SaveSettings(settings) ==
  /\ storage' = saveSettings(storage, settings)
  /\ UNCHANGED <<fileManagerVars, storeVars, viewVars, currentSeriesData>>

\* storageManager.addRecentSeries(name, stats)
AddRecentSeries(name) ==
  /\ storage' = addRecentSeries(storage, name)
  /\ UNCHANGED <<fileManagerVars, storeVars, viewVars, currentSeriesData>>

\* storageManager.clearAll()
ClearAll ==
  /\ storage' = clearAll(storage)
  /\ UNCHANGED <<fileManagerVars, storeVars, viewVars, currentSeriesData>>

StorageNext ==
  \/ \E mode \in Modes : Reload(mode)
  \/ \E mode \in Modes : LocalStorage(mode)
  \/ SaveProgressItem(Name_a_b, ProgressData(1, 3))
  \/ \E value \in TextSizes : SetSetting("textSize", value)
  \/ SaveSettings([hideUI |-> TRUE])
  \/ AddRecentSeries(Name_a_b)
  \/ ClearAll

StorageSpec == Init /\ [][StorageNext]_vars

\* the store of a StorageManager that was just constructed over an empty
\* localStorage reads as this
ReadsAsFresh(st) ==
  /\ getAllProgress(st) = <<>>
  /\ getRecentSeries(st) = <<>>
  /\ getSettings(st) = defaultSettings

\* after clearAll no progress is stored
ClearAllEmptiesProgress == [][ClearAll => getAllProgress(storage') = <<>>]_vars

\* after clearAll the recent-series list is empty
ClearAllEmptiesRecent == [][ClearAll => getRecentSeries(storage') = <<>>]_vars

\* after clearAll getSettings returns the original default settings
ClearAllRestoresDefaults ==
  [][ClearAll => getSettings(storage') = defaultSettings]_vars

\* C27: clearAll returns the settings/progress store to the state of a
\* freshly constructed store: no progress, no recent series, and the
\* original default settings
C27_ClearAllResets == [][ClearAll => ReadsAsFresh(storage')]_vars

\* ------------------------------------------------------------------------
\* Reading back what was written
\* ------------------------------------------------------------------------

\* this step is a write, and the read that follows it returns what it wrote
WriteReadsBack ==
  /\ \A value \in TextSizes :
        SetSetting("textSize", value) =>
          /\ getItem(storage', SETTINGS_KEY) = Some(storage'.settings)
          /\ getSettings(storage').textSize = value
  /\ SaveSettings([hideUI |-> TRUE]) => getSettings(storage').hideUI
  /\ SaveProgressItem(Name_a_b, ProgressData(1, 3)) =>
        /\ StorageManager_getProgress(storage', Name_a_b) # null
        /\ StorageManager_getProgress(storage', Name_a_b)[1].currentPage = 1
  /\ AddRecentSeries(Name_a_b) =>
        /\ getRecentSeries(storage') # <<>>
        /\ getRecentSeries(storage')[1].name = Name_a_b

\* localStorage does not accept writes and the manager was constructed when
\* it did
WritesFailLater == ~storage.useMemoryStorage /\ storage.mode # "ok"

\* the store reads back what it wrote as long as localStorage does what it
\* did when the manager was constructed
ReadsBackUnlessFailingLater == [][~WritesFailLater => WriteReadsBack]_vars

\* C30: the store reads back what it wrote: after a write that reported
\* success the next read of the key returns the value written, whether
\* localStorage is available, was unavailable at construction, or became
\* unavailable later
C30_ReadsBackWritten == [][WriteReadsBack]_vars

\* ------------------------------------------------------------------------
\* The upload page: handleFileSelection, resetUploadUI and startReading
\* ------------------------------------------------------------------------

\* resetUploadUI leaving the data of the upload before
resetUploadUI_Keep(data) == data

\* MangaReaderApp.resetUploadUI: this.currentSeriesData after it
resetUploadUI(data) == null

\* a processZipFile has settled and the handleFileSelection that awaits it
\* has not resumed: it resumes before any other task runs
ResumeDue == \E r \in Calls : result[r] \notin {"none", "pending"}

\* the upload page is there: it has not navigated to the reader
OnUploadPage == app.pc # "navigated" /\ ~ResumeDue

\* MangaReaderApp.handleFileSelection(file) up to its await of
\* processZipFile; it returns at once without a file
HandleFileSelection(r, file) ==
  /\ OnUploadPage
  /\ IF ~file.present THEN UNCHANGED vars ELSE ProcessZipFile(r, file)

\* handleFileSelection resumes when processZipFile has settled: it keeps
\* the result, or catches the error and calls resetUploadUI
HandleFileSelectionResumes(r) ==
  /\ result[r] \notin {"none", "pending"}
  /\ IF result[r] = "success"
     THEN /\ currentSeriesData' =
               Some(processZipFileResult(currentFiles, run[r].file))
          /\ UNCHANGED currentFiles
     ELSE /\ currentSeriesData' = resetUploadUI(currentSeriesData)
          /\ currentFiles' = clear(currentFiles, processing)
  /\ result' = [result EXCEPT ![r] = "none"]
  /\ UNCHANGED <<processing, run>>
  /\ UNCHANGED <<storeVars, viewVars, storage>>

\* the name in the series name field
UploadNames == {Name_a_b}

\* the files the user selects: the files that validateZipFile rejects, a
\* file that is no archive, and archives of one entry
SelectedFiles == RejectedFiles \cup UndecodableFiles \cup {ZipFile(1)}

\* the upload page: uploads, then startReading over the session store
UploadNext ==
  \/ \E r \in Calls, file \in SelectedFiles : HandleFileSelection(r, file)
  \/ \E r \in Calls : HandleFileSelectionResumes(r)
  \/ OnUploadPage /\ \E r \in Calls : LoadAsyncSettles(r)
  \/ OnUploadPage /\ \E r \in Calls : EntryRead(r)
  \/ OnUploadPage /\ \E r \in Calls : ExtractFilesSettled(r)
  \/ OnUploadPage /\ \E typed \in UploadNames : StartReading(typed, currentSeriesData)
  \/ OnUploadPage /\ InitDB
  \/ OnUploadPage /\ RequestSucceeds
  \/ OnUploadPage /\ TransactionCompletes
  \/ OnUploadPage /\ StartReadingResumes
  \/ OnUploadPage /\ Navigate

UploadSpec == Init /\ [][UploadNext]_vars

\* the errors validateZipFile throws
ValidationErrors == {Err_NoFile, Err_NotZip, Err_TooLarge, Err_EmptyFile}

\* a processZipFile that validateZipFile makes fail leaves an empty
\* accumulator and the processing flag cleared, and rejects with the
\* validation error
RejectedRunLeavesNothing ==
  \A r \in Calls, file \in SelectedFiles :
    /\ HandleFileSelection(r, file)
    /\ file.present
    /\ ~processing
    /\ validateZipFile(file) # NoError
    => /\ currentFiles' = EmptyFiles
       /\ ~processing'
       /\ result'[r] = validateZipFile(file)
       /\ result'[r] \in ValidationErrors

\* handleFileSelection resuming from a rejected file leaves no accumulated
\* files and no current series data
RejectedUploadLeavesNothing ==
  \A r \in Calls :
    HandleFileSelectionResumes(r) /\ result[r] \in ValidationErrors
    => /\ currentFiles' = EmptyFiles
       /\ currentSeriesData' = null

\* without current series data no write to the session store is started
NothingStoredWithoutData ==
  currentSeriesData = null => Len(transactions') <= Len(transactions)

\* C28: an upload attempt that validation rejects retains no partial state:
\* after the failed processZipFile the accumulator holds no images, no
\* translations and no matched pages, the app holds no current series data,
\* and no session is stored for the attempt
C28_RejectedUploadRetainsNothing ==
  [][ /\ RejectedRunLeavesNothing
      /\ RejectedUploadLeavesNothing
      /\ NothingStoredWithoutData ]_vars

\* a file was rejected by validation after a series had been stored from an
\* earlier upload: nothing of either upload is held
C28_Witness ==
  /\ \E r \in Calls : run[r].error \in ValidationErrors /\ result[r] = "none"
  /\ mangaSeries # {}
  /\ app.pc = "waiting"
  /\ currentSeriesData = null
  /\ currentFiles = EmptyFiles

\* ------------------------------------------------------------------------
\* The progress callback of processZipFile
\* ------------------------------------------------------------------------

\* the percentages passed to the progress callback by the run of invocation
\* r so far, as far as the last run of r goes
Percentages(r) == [i \in 1..Len(run[r].reported) |-> run[r].reported[i].progress]

\* the percentages never decrease from one call to the next
NeverDecreases(r) ==
  \A i \in 1..(Len(run[r].reported) - 1) :
    Percentages(r)[i] <= Percentages(r)[i + 1]

\* the calls made during extraction, in their order
ProcessingCalls(r) ==
  SelectSeq(run[r].reported, LAMBDA c : c.message = "processing")

\* every value reported during extraction lies within [30, 70], and the
\* value of the k-th entry processed is 30 plus the share k / totalFiles
\* of 40, rounded down
ExtractionValues(r) ==
  \A k \in 1..Len(ProcessingCalls(r)) :
    /\ ProcessingCalls(r)[k].progress >= 30
    /\ ProcessingCalls(r)[k].progress <= 70
    /\ ProcessingCalls(r)[k].progress - 30
         = (k * 40) \div run[r].file.totalFiles
    /\ k > 1 => ProcessingCalls(r)[k].progress > ProcessingCalls(r)[k - 1].progress

\* 100 is reported only by a run that succeeds, as its last report
CompleteOnlyOnSuccess(r) ==
  \A i \in 1..Len(run[r].reported) :
    Percentages(r)[i] = 100 =>
      /\ i = Len(run[r].reported)
      /\ run[r].pc = "idle" /\ run[r].error = NoError
      /\ result[r] = "success"

\* C29: within one processZipFile run the percentages passed to the
\* progress callback never decrease; the values reported during extraction
\* lie within [30, 70] and grow with the number of entries processed; 100
\* is reported only when the run succeeds
C29_ProgressReports ==
  \A r \in Calls :
    NeverDecreases(r) /\ ExtractionValues(r) /\ CompleteOnlyOnSuccess(r)

\* a run has succeeded after reporting 10, 30, two distinct values during
\* extraction, the last of them 70, then 80, 90 and 100
C29_Witness ==
  \E r \in Calls :
    /\ result[r] = "success"
    /\ Len(ProcessingCalls(r)) = 2
    /\ ProcessingCalls(r)[1].progress < 70
    /\ ProcessingCalls(r)[2].progress = 70
    /\ Len(run[r].reported) = 7
    /\ Percentages(r)[1] = 10
    /\ Percentages(r)[7] = 100

\* a run has failed after reporting during extraction
ProgressOfFailedRun ==
  \E q \in Calls :
    /\ run[q].error \notin {NoError} \cup ValidationErrors
    /\ run[q].pc = "idle"
    /\ ProcessingCalls(q) # <<>>


\* ------------------------------------------------------------------------
\* C31: fallback match across zero padding
\* ------------------------------------------------------------------------

\* a baseName with its case, its separators and the zero padding of its
\* numbers taken away: Page_05, page-05 and page-5 all give page5
RECURSIVE DropPadding(_, _)
DropPadding(s, inNumber) ==
  IF s = <<>> THEN <<>>
  ELSE IF Head(s) = "0" /\ ~inNumber /\ Len(s) > 1 /\ IsDigit(s[2])
       THEN DropPadding(Tail(s), FALSE)
  ELSE <<Head(s)>> \o DropPadding(Tail(s), IsDigit(Head(s)))

PageKey(baseName) ==
  DropPadding(SelectSeq(toLowerCase(baseName), IsLowerAlnum), FALSE)

\* the translations of the collection that differ from the image's baseName
\* in case, separators and zero padding only
AlikeTranslations(page) ==
  {j \in 1..Len(currentFiles.translations) :
     PageKey(currentFiles.translations[j].baseName) = PageKey(page.image.baseName)}

\* C31: an image without an exact match is matched with a translation whose
\* baseName differs from the image's only in case, separators and the zero
\* padding of the page number (Page_05 and page-5).
C31_MatchesAcrossPadding ==
  ~processing =>
    \A k \in 1..Len(currentFiles.matched) :
      LET page  == currentFiles.matched[k]
          trans == currentFiles.translations
          exact == {j \in 1..Len(trans) : trans[j].baseName = page.image.baseName}
      IN  exact = {} /\ AlikeTranslations(page) # {}
            => \E j \in AlikeTranslations(page) : page.translation = Some(trans[j])

\* what the fallback does match: baseNames that are equal once lowercased
\* and stripped of their non-alphanumeric characters, padding included
MatchesSamePadding ==
  ~processing =>
    \A k \in 1..Len(currentFiles.matched) :
      LET page  == currentFiles.matched[k]
          trans == currentFiles.translations
      IN  (\E j \in 1..Len(trans) :
             SelectSeq(toLowerCase(trans[j].baseName), IsLowerAlnum)
               = SelectSeq(toLowerCase(page.image.baseName), IsLowerAlnum))
            => page.translation # null

\* ------------------------------------------------------------------------
\* C32: navigation and the reading direction
\* ------------------------------------------------------------------------

RightToLeft == reader.settings.readingDirection = "rtl"

\* the page index moves by delta, or stays where index + delta is no page
Moves(delta) ==
  reader'.currentPage =
    IF inRange(reader, reader.currentPage + delta)
    THEN reader.currentPage + delta ELSE reader.currentPage

\* the inputs on the right and on the left of the page
ZoneOrKeyNext     == HandleNavClick("next") \/ KeyDown("ArrowRight")
ZoneOrKeyPrevious == HandleNavClick("prev") \/ KeyDown("ArrowLeft")

\* C32: with the reading direction right-to-left every 'next' input (right
\* zone, ArrowRight, next button) takes the page index down by one and
\* every 'previous' input takes it up by one; left-to-right they move it
\* the other way; the index never leaves the pages.
C32_DirectionInverts ==
  [][ /\ ZoneOrKeyNext \/ NextPage
        => Moves(IF RightToLeft THEN -1 ELSE 1)
      /\ ZoneOrKeyPrevious \/ PreviousPage
        => Moves(IF RightToLeft THEN 1 ELSE -1) ]_vars

\* the navigation zones and the arrow keys follow the reading direction
ZonesAndKeysInvert ==
  [][ /\ ZoneOrKeyNext => Moves(IF RightToLeft THEN -1 ELSE 1)
      /\ ZoneOrKeyPrevious => Moves(IF RightToLeft THEN 1 ELSE -1) ]_vars

\* the buttons do not: next is nextPage and previous is previousPage
ButtonsKeepDirection ==
  [][ (NextPage => Moves(1)) /\ (PreviousPage => Moves(-1)) ]_vars

\* a navigation input on a page of the series leads to a page of the series
NavigationStaysInRange ==
  [][ (ZoneOrKeyNext \/ ZoneOrKeyPrevious \/ NextPage \/ PreviousPage)
        /\ inRange(reader, reader.currentPage)
        => inRange(reader', reader'.currentPage) ]_vars

\* the next button has turned a page with the direction right-to-left
NextButtonRightToLeft ==
  /\ reader.page = "ready" /\ RightToLeft
  /\ reader.currentPage > 0 /\ inRange(reader, reader.currentPage)

\* ------------------------------------------------------------------------
\* C33: opening a session that is missing
\* ------------------------------------------------------------------------

\* there is no series parameter, the store is empty, or the store holds no
\* entry of that name that has not expired
MissingSession(name) ==
  \/ name = <<>>
  \/ getAllKeys(mangaSeries) = {}
  \/ getSeriesResult(get(mangaSeries, name), now) = null

\* the reader is opened for a session it cannot load
OpensMissing(name) ==
  (Open(name) /\ MissingSession(name)) \/ OpenFails(name)

\* the reader is on its way to the upload page and displays no page
RedirectsWithoutPage(r) ==
  r.page = "redirect" /\ r.files = null /\ r.src = null

\* C33: opening the reader for a session that is missing, not stored or
\* expired, or that cannot be read, never displays a page: a reason asking
\* to upload again is shown and the reader goes back to the upload page,
\* whatever the cause (a missing series parameter included).
C33_MissingSessionRedirects ==
  [][ \A name \in ReaderNames :
        OpensMissing(name)
          => RedirectsWithoutPage(reader') /\ reader'.toast # null ]_vars

\* no page is displayed and the redirect is due, whatever the cause
MissingSessionNeverReady ==
  [][ \A name \in ReaderNames :
        OpensMissing(name) => RedirectsWithoutPage(reader') ]_vars

\* a reason is shown where the address names a series
NamedMissingSessionShowsReason ==
  [][ \A name \in ReaderNames \ {<<>>} :
        OpensMissing(name)
          => reader'.toast \in {Some(Toast_NoData), Some(Toast_Expired),
                                Some(Toast_LoadFailed)} ]_vars

\* the only step that leaves the redirecting reader is the redirect
RedirectFollows ==
  [][ reader.page = "redirect" => reader'.page \in {"redirect", "closed"} ]_vars

\* a reader opened for a series that is not stored is about to redirect
MissingSessionOpened ==
  reader.page = "redirect" /\ reader.toast = Some(Toast_Expired)

\* ------------------------------------------------------------------------
\* C34: reset of the reading progress
\* ------------------------------------------------------------------------

\* the user confirms the reset of the reading progress
ResetConfirmed == ResetReadingProgress(TRUE)

\* C34: after the user has confirmed 'reset reading progress' the reader is
\* on page 0, the stored progress of the series no longer points at the
\* earlier page, and the settings panel is closed.
C34_ResetReturnsToFirstPage ==
  [][ ResetConfirmed =>
        /\ reader'.currentPage = 0
        /\ currentPageOr0(getProgress(progress', reader.seriesName)) = 0
        /\ ~reader'.settingsOpen ]_vars

\* what the confirmed reset does: the handler throws and leaves the page,
\* the stored progress and the panel as they were
ResetChangesNothing ==
  [][ ResetConfirmed =>
        /\ reader'.uncaught # null
        /\ reader' = [reader EXCEPT !.uncaught = reader'.uncaught]
        /\ progress' = progress ]_vars

\* a reset was confirmed on a later page, whose progress is stored
ResetOnLaterPage ==
  /\ reader.page = "ready" /\ reader.uncaught # null
  /\ reader.currentPage > 0
  /\ currentPageOr0(getProgress(progress, reader.seriesName)) > 0

\* ------------------------------------------------------------------------
\* The recent-series list
\* ------------------------------------------------------------------------

\* the names of the series read before: s1 .. s9
Name_s(d) == <<"s", d>>

\* the list nine addRecentSeries calls have left, s9 added last
RecentNine ==
  [i \in 1..9 |-> [id |-> sanitize(Name_s(DigitChars[11 - i])),
                   name |-> Name_s(DigitChars[11 - i])]]

\* the series added and removed: two names of one sanitized id, a new one
\* and one of the list
RecentNames == {Name_a_b, Name_A_b, Name_x, Name_s("5"), <<>>}

\* the storage manager of a page whose localStorage holds the list
RecentInit ==
  /\ FileManagerInit /\ StoreInit /\ SeparationInit
  /\ reader = MangaReader
  /\ storage = newStorageManager([k \in {RECENT_SERIES_KEY} |-> RecentNine], "ok")
  /\ currentSeriesData = null
  /\ fit = NoFit

\* storageManager.removeRecentSeries(name)
RemoveRecentSeries(name) ==
  /\ storage' = removeRecentSeries(storage, name)
  /\ UNCHANGED <<fileManagerVars, storeVars, viewVars, currentSeriesData>>

RecentNext ==
  \/ \E mode \in Modes : LocalStorage(mode)
  \/ \E name \in RecentNames : AddRecentSeries(name)
  \/ \E name \in RecentNames : RemoveRecentSeries(name)

RecentSpec == RecentInit /\ [][RecentNext]_vars

\* the ids of a list are distinct
DistinctIds(list) ==
  \A i, j \in 1..Len(list) : list[i].id = list[j].id => i = j

\* the list holds at most 10 entries of distinct sanitized ids
RecentListBounded ==
  /\ Len(getRecentSeries(storage)) <= maxRecent
  /\ DistinctIds(getRecentSeries(storage))

\* the series added is the first of the list read back
AddedIsFirst(name) ==
  /\ getRecentSeries(storage') # <<>>
  /\ Head(getRecentSeries(storage')).name = name

\* adding keeps the other entries in their order and drops no more than the
\* entry of the same id and the entries beyond the tenth
AddMovesToFront(name) ==
  LET rest == Without(getRecentSeries(storage), sanitize(name))
  IN  Tail(getRecentSeries(storage'))
        = SubSeq(rest, 1, IF Len(rest) > maxRecent - 1 THEN maxRecent - 1
                          ELSE Len(rest))

\* C35: after any addRecentSeries and removeRecentSeries calls the list
\* holds at most 10 entries of distinct sanitized ids; the series added last
\* is first, and adding a series of the list moves it to the front.
C35_RecentList ==
  /\ [](RecentListBounded)
  /\ [][ \A name \in RecentNames \ {<<>>} :
           AddRecentSeries(name) => AddedIsFirst(name) /\ AddMovesToFront(name) ]_vars

\* the same, for the calls whose write goes where the reads are served from
RecentListWhereWritesAreRead ==
  /\ [](RecentListBounded)
  /\ [][ \A name \in RecentNames \ {<<>>} :
           AddRecentSeries(name) /\ (storage.mode = "ok" \/ storage.useMemoryStorage)
             => AddedIsFirst(name) /\ AddMovesToFront(name) ]_vars

\* removeRecentSeries leaves the list without the series
RemovedIsGone ==
  [][ \A name \in RecentNames \ {<<>>} :
        RemoveRecentSeries(name) /\ (storage.mode = "ok" \/ storage.useMemoryStorage)
          => getRecentSeries(storage') = Without(getRecentSeries(storage), sanitize(name)) ]_vars

\* a full list, whose last entry an addition has pushed out
RecentListFull ==
  /\ Len(getRecentSeries(storage)) = maxRecent
  /\ Head(getRecentSeries(storage)).name = Name_x
  /\ \A i \in 1..maxRecent : getRecentSeries(storage)[i].name # Name_s("1")

\* ------------------------------------------------------------------------
\* C36: displaced blocks stay inside the overlay
\* ------------------------------------------------------------------------

\* the block is no larger than the overlay less its margins
Fits(el, overlayRect) ==
  /\ el.width <= overlayRect.width - 2 * margin * Unit
  /\ el.height <= overlayRect.height - 2 * margin * Unit

\* the block lies inside the overlay, margin pixels off its edges
WithinMargin(el, overlayRect) ==
  /\ el.left >= margin * Unit
  /\ el.top >= margin * Unit
  /\ el.left + el.width <= overlayRect.width - margin * Unit
  /\ el.top + el.height <= overlayRect.height - margin * Unit

\* the blocks applySeparation has nudged
Displaced == {k \in DOMAIN sep.s.blocks : sep.s.movedTotals[k] > 0}

\* C36: every block separation has displaced lies within the overlay, 4
\* pixels off its edges on each axis, whenever the block fits inside; and
\* every block that was never nudged (so every block that never overlapped
\* another one during the sweeps) is where it was rendered.
C36_DisplacedWithinMargin ==
  sep.enabled =>
    \A k \in DOMAIN sep.s.blocks :
      /\ k \in Displaced /\ Fits(sep.s.blocks[k], sep.overlayRect)
           => WithinMargin(sep.s.blocks[k], sep.overlayRect)
      /\ k \notin Displaced
           => Position(sep.s.blocks[k]) = Position(sep.rendered[k])

\* applySeparation has returned with a displaced block that the clamp has
\* brought in from outside the margin, next to a block it never nudged
C36_Witness ==
  /\ sep.enabled /\ ~sep.running
  /\ \E k \in Displaced :
       /\ ~WithinMargin(sep.rendered[k], sep.overlayRect)
       /\ WithinMargin(sep.s.blocks[k], sep.overlayRect)
  /\ \A k \in DOMAIN sep.s.blocks : Fits(sep.s.blocks[k], sep.overlayRect)

\* a displaced block that does not fit reaches beyond the margin
WideBlockDisplaced ==
  /\ sep.enabled /\ ~sep.running
  /\ \E k \in Displaced :
       /\ ~Fits(sep.s.blocks[k], sep.overlayRect)
       /\ ~WithinMargin(sep.s.blocks[k], sep.overlayRect)

\* blocks that do not overlap are left alone
ApartBlocksStay ==
  /\ sep.enabled /\ ~sep.running
  /\ Displaced = {} /\ Len(sep.s.blocks) = 2

\* ------------------------------------------------------------------------
\* C37: the push of an overlapping pair
\* ------------------------------------------------------------------------

\* the penetration depth of two blocks on an axis
Penetration(a, b, axis) ==
  IF axis = "x"
  THEN MathMax(0, MathMin(a.left + a.width, b.left + b.width)
                    - MathMax(a.left, b.left))
  ELSE MathMax(0, MathMin(a.top + a.height, b.top + b.height)
                    - MathMax(a.top, b.top))

\* the axis of the smaller penetration depth, the horizontal one when equal
PushAxis(a, b) ==
  IF Penetration(a, b, "x") <= Penetration(a, b, "y") THEN "x" ELSE "y"

\* the coordinate of a block on an axis, and across it
Along(el, axis)  == IF axis = "x" THEN el.left ELSE el.top
Across(el, axis) == IF axis = "x" THEN el.top ELSE el.left

\* twice the centre of a block on an axis
Centre2(el, axis) ==
  IF axis = "x" THEN 2 * el.left + el.width ELSE 2 * el.top + el.height

\* the pairs in the order of the two inner loops
PairsInOrder(n) == {p \in (1..n) \X (1..n) : p[1] < p[2]}
Before(q, p) == q[1] < p[1] \/ (q[1] = p[1] /\ q[2] < p[2])

\* the pair the sweep that starts in state s handles first: it overlaps
\* with a positive step, and the loop body leaves s alone for every pair
\* before it
HandledFirst(s, overlayRect) ==
  {p \in PairsInOrder(Len(s.blocks)) :
     /\ VisitPair(s, p[1], p[2], overlayRect) # s
     /\ \A q \in PairsInOrder(Len(s.blocks)) :
          Before(q, p) => VisitPair(s, q[1], q[2], overlayRect) = s}

\* the push of the pair (a, b) to (a2, b2) is along the push axis only, by
\* equal steps in opposite directions, each block away from the other's
\* centre, and leaves the pair no deeper in each other on that axis
PushedApart(a, b, a2, b2) ==
  LET axis == PushAxis(a, b)
      moveA == Along(a2, axis) - Along(a, axis)
      moveB == Along(b2, axis) - Along(b, axis)
  IN  /\ Across(a2, axis) = Across(a, axis)
      /\ Across(b2, axis) = Across(b, axis)
      /\ moveA = -moveB /\ moveA # 0
      /\ (Centre2(b, axis) >= Centre2(a, axis)) <=> (moveB > 0)
      /\ Penetration(a2, b2, axis) <= Penetration(a, b, axis)

\* the sweeps are running and the next one has a pair to push
PushDue == sep.running /\ ~loopEnds(sep.s)

\* C37: the pair a sweep handles is pushed along the axis of the smaller
\* penetration depth (the horizontal one when equal) only, by equal steps
\* in opposite directions, each block away from the other's centre, so that
\* the push never deepens the pair's overlap on that axis.
C37_PushAlongSmallerAxis ==
  PushDue =>
    \A p \in HandledFirst(sep.s, sep.overlayRect) :
      LET t == VisitPair(sep.s, p[1], p[2], sep.overlayRect)
      IN  PushedApart(sep.s.blocks[p[1]], sep.s.blocks[p[2]],
                      t.blocks[p[1]], t.blocks[p[2]])

\* the clamp of _nudgeWithinOverlay leaves the block where the nudge puts it
Unclamped(el, axis, d, overlayRect) ==
  LET moved == IF axis = "x" THEN [el EXCEPT !.left = el.left + d]
               ELSE [el EXCEPT !.top = el.top + d]
  IN  _nudgeWithinOverlay(el, 0, 0, overlayRect) = el
        /\ _nudgeWithinOverlay(moved, 0, 0, overlayRect) = moved

\* the same for the pushes the margin clamp does not touch
PushAlongSmallerAxisUnclamped ==
  PushDue =>
    \A p \in HandledFirst(sep.s, sep.overlayRect) :
      LET t    == VisitPair(sep.s, p[1], p[2], sep.overlayRect)
          a    == sep.s.blocks[p[1]]
          b    == sep.s.blocks[p[2]]
          axis == PushAxis(a, b)
          step == t.movedTotals[p[1]] - sep.s.movedTotals[p[1]]
          dir  == IF Centre2(b, axis) >= Centre2(a, axis) THEN 1 ELSE -1
      IN  Unclamped(a, axis, -dir * step, sep.overlayRect)
            /\ Unclamped(b, axis, dir * step, sep.overlayRect)
            => PushedApart(a, b, t.blocks[p[1]], t.blocks[p[2]])

\* a pair is about to be pushed with the clamp touching neither block
UnclampedPushDue ==
  /\ PushDue
  /\ \E p \in HandledFirst(sep.s, sep.overlayRect) :
       LET t == VisitPair(sep.s, p[1], p[2], sep.overlayRect)
       IN  /\ WithinMargin(sep.s.blocks[p[1]], sep.overlayRect)
           /\ WithinMargin(t.blocks[p[1]], sep.overlayRect)
           /\ PushedApart(sep.s.blocks[p[1]], sep.s.blocks[p[2]],
                          t.blocks[p[1]], t.blocks[p[2]])
           /\ PushAxis(sep.s.blocks[p[1]], sep.s.blocks[p[2]]) = "y"

\* ---------------------------------------------------------------------
\* renderTranslations: fitting the font size of a block
\* ---------------------------------------------------------------------

\* the value of a JSON item in arithmetic: a number is itself, and the
\* strings of the documents (not numerals) are NaN
ToNumber(v) == IF v.t = "number" THEN Number(v.n) ELSE NaN

\* Math.min and Math.max: NaN when an argument is NaN
NumMin(a, b) == IF a.nan \/ b.nan THEN NaN ELSE Number(MathMin(a.n, b.n))
NumMax(a, b) == IF a.nan \/ b.nan THEN NaN ELSE Number(MathMax(a.n, b.n))

\* a * num / den
Scaled(a, num, den) == IF a.nan THEN NaN ELSE Number((a.n * num) \div den)

\* a > b: false when an argument is NaN
Greater(a, b) == ~a.nan /\ ~b.nan /\ a.n > b.n

\* a number of pixels
Px(k) == Number(k * FontUnit)

\* scaledHeight = height * (imgRect.height / mokuroData.img_height)
fitScaledHeight(block, mokuroData, rect) ==
  LET height     == ToNumber(block.box.items[4])
      img_height == ToNumber(mokuroData.img_height)
  IN  IF height.nan \/ img_height.nan THEN NaN
      ELSE Number(((height.n * rect.height) \div img_height.n)
                    * (FontUnit \div Unit))

\* let fontSize = Math.min(textSize * 0.6, scaledHeight * 0.2);
\* fontSize = Math.max(fontSize, 8)
startFontSize(textSize, scaledHeight) ==
  NumMax(NumMin(Scaled(textSize, 6, 10), Scaled(scaledHeight, 2, 10)), Px(8))

maxAttempts == 20

\* the condition of the while loop
loopRuns(f) ==
  ~f.textFits /\ Greater(f.fontSize, Px(6)) /\ f.attempts < maxAttempts

\* fontSize = Math.max(6, fontSize * 0.9)
reduceFontSize(fontSize) == NumMax(Px(6), Scaled(fontSize, 9, 10))

\* the text sizes of the settings: the default, and a stored larger one
FitTextSizes == {16, 100}

TallBox == Arr(<<Num(10), Num(20), Num(300), Num(400)>>)
TextBox == Arr(<<Str(1), Str(1), Str(1), Str(1)>>)

\* the documents of the pages: two blocks of numbers, and the document of
\* n.json, whose box holds strings
FitDocs ==
  { Doc(Num(800), Num(1200),
        <<Block(GoodBox, GoodLines), Block(TallBox, GoodLines)>>),
    Doc(Num(-5), Num(960), <<Block(TextBox, GoodLines)>>) }

\* forEach block with text: the element is created and the fitting starts
FitBlock(textSize, mokuroData, i, zoom) ==
  /\ fit.pc # "fitting"
  /\ hasText(mokuroData.blocks.items[i])
  /\ LET scaledHeight == fitScaledHeight(mokuroData.blocks.items[i],
                                         mokuroData, imgRect(zoom))
         fontSize     == startFontSize(Px(textSize), scaledHeight)
     IN  fit' = [pc |-> "fitting", textSize |-> Px(textSize),
                 scaledHeight |-> scaledHeight, fontSize |-> fontSize,
                 styleFontSize |-> NaN, wrappedAt |-> NaN,
                 attempts |-> 0, textFits |-> FALSE]
  /\ UNCHANGED <<fileManagerVars, storeVars, sep, reader, storage,
                 currentSeriesData>>

\* one pass of the loop: the size is applied, the text wrapped for it and
\* the element measured; fits is what the measurement says
FitAttempt(fits) ==
  /\ fit.pc = "fitting"
  /\ loopRuns(fit)
  /\ fit' = [fit EXCEPT !.styleFontSize = fit.fontSize,
                        !.wrappedAt = fit.fontSize,
                        !.textFits = fits,
                        !.fontSize = IF fits THEN @ ELSE reduceFontSize(@),
                        !.attempts = IF fits THEN @ ELSE @ + 1]
  /\ UNCHANGED <<fileManagerVars, storeVars, sep, reader, storage,
                 currentSeriesData>>

\* after the loop: a text that did not fit is wrapped again for the size
\* the loop ended with, and the element is shown
FitEnds ==
  /\ fit.pc = "fitting"
  /\ ~loopRuns(fit)
  /\ fit' = [fit EXCEPT !.pc = "rendered",
                        !.wrappedAt = IF fit.textFits THEN @ ELSE fit.fontSize]
  /\ UNCHANGED <<fileManagerVars, storeVars, sep, reader, storage,
                 currentSeriesData>>

FitNext ==
  \/ \E textSize \in FitTextSizes, mokuroData \in FitDocs, zoom \in Zooms :
       \E i \in 1..Len(mokuroData.blocks.items) :
         FitBlock(textSize, mokuroData, i, zoom)
  \/ \E fits \in BOOLEAN : FitAttempt(fits)
  \/ FitEnds

FitSpec == Init /\ [][FitNext]_vars

\* ---- C38 ----

StartsFitting == fit.pc # "fitting" /\ fit'.pc = "fitting"
Attempts      == fit.pc = "fitting" /\ fit'.pc = "fitting"
EndsFitting   == fit.pc = "fitting" /\ fit'.pc = "rendered"

\* the size is a number of at least six pixels after at most twenty
\* reductions
Fitted ==
  fit.pc # "idle" =>
    /\ ~fit.fontSize.nan /\ fit.fontSize.n >= 6 * FontUnit
    /\ fit.attempts <= maxAttempts

\* the start value, the reductions and the end of the loop
FittingStep ==
  /\ StartsFitting =>
       /\ ~fit'.fontSize.nan
       /\ fit'.fontSize.n =
            MathMax(8 * FontUnit,
                    MathMin((fit'.textSize.n * 6) \div 10,
                            (fit'.scaledHeight.n * 2) \div 10))
  /\ Attempts =>
       /\ fit.attempts < maxAttempts
       /\ ~fit.fontSize.nan /\ fit.fontSize.n > 6 * FontUnit
       /\ ~fit'.fontSize.nan /\ fit'.fontSize.n <= fit.fontSize.n
       /\ fit'.fontSize # fit.fontSize =>
            /\ fit'.fontSize.n = MathMax(6 * FontUnit, (fit.fontSize.n * 9) \div 10)
            /\ fit'.attempts = fit.attempts + 1
  /\ EndsFitting =>
       /\ \/ fit.textFits
          \/ fit.attempts = maxAttempts
          \/ ~fit.fontSize.nan /\ fit.fontSize.n <= 6 * FontUnit
       /\ ~fit.styleFontSize.nan
       /\ fit'.styleFontSize = fit.styleFontSize

\* C38: the font size of a block starts at min(0.6 * textSize, 0.2 * scaled
\* height) raised to at least 8, is only reduced, by 10% per attempt, the
\* loop ends after at most 20 reductions or when the size reaches 6, the
\* final size is never below 6, and a block that does not fit is rendered
\* with the size of the last attempt.
C38_FontFitting == [](Fitted) /\ [][FittingStep]_vars

\* the scaled height of the block is a number
NumericBlock(f) == ~f.scaledHeight.nan

\* the fitting of a block whose box and page height are numbers is as C38
\* says
NumericBlockFitting ==
  /\ [](NumericBlock(fit) => Fitted)
  /\ [][NumericBlock(fit') => FittingStep]_vars

\* a block whose box holds strings is rendered with no font size and no
\* attempt
RenderedWithoutSize ==
  fit.pc = "rendered" /\ fit.fontSize.nan /\ fit.attempts = 0 /\ ~fit.textFits

\* the loop ends at the twentieth reduction with a size above six pixels
AttemptsExhausted ==
  /\ fit.pc = "rendered" /\ ~fit.textFits
  /\ fit.attempts = maxAttempts /\ fit.fontSize.n > 6 * FontUnit

\* the loop ends when the size reaches six pixels
FloorReached ==
  /\ fit.pc = "rendered" /\ ~fit.textFits
  /\ fit.attempts < maxAttempts /\ fit.fontSize = Px(6)

\* a block that did not fit keeps the size of the last attempt and carries
\* the text wrapped for the reduced size
WrappedBelowStyle ==
  /\ fit.pc = "rendered" /\ ~fit.textFits
  /\ Greater(fit.styleFontSize, fit.wrappedAt)

\* ---------------------------------------------------------------------
\* extractFiles: what is done with an entry
\* ---------------------------------------------------------------------

\* the branch of the loop body an entry that is not a directory takes:
\* skipped, processImageFile, processJSONFile, or neither
handledAs(filename) ==
  IF shouldSkipFile(filename) THEN "Ignored"
  ELSE IF isImage(filename) THEN "Image"
  ELSE IF isJSON(filename) THEN "Translation"
  ELSE "Ignored"

\* ---- C39 ----

\* the part of a name after its last '/'
BaseNameOf(filename) == LastPart(filename, "/")

\* the extension of a name, lower case: what follows the last '.' of its
\* basename; a basename without '.' has none
HasExtension(filename) == \E i \in 1..Len(BaseNameOf(filename)) : BaseNameOf(filename)[i] = "."
ExtensionOf(filename) == LastPart(toLowerCase(BaseNameOf(filename)), ".")

\* the class the rules give a name, taken in order
ClassOf(filename) ==
  LET name == toLowerCase(filename)
  IN  IF startsWith(BaseNameOf(filename), <<".">>)
         \/ startsWith(name, <<".">>) \/ includes(name, <<"/", ".">>)
      THEN "Ignored"
      ELSE IF includes(name, <<"_", "_", "m", "a", "c", "o", "s", "x">>)
              \/ includes(name, <<"t", "h", "u", "m", "b", "s", ".", "d", "b">>)
      THEN "Ignored"
      ELSE IF HasExtension(filename) /\ ExtensionOf(filename) \in supportedImageTypes
      THEN "Image"
      ELSE IF HasExtension(filename) /\ ExtensionOf(filename) = Str_json
      THEN "Translation"
      ELSE "Ignored"

\* the entries, directories apart, the loop of a run has met
EntriesMet == {e \in UNION {Range(run[r].file.files) : r \in DOMAIN run} : ~e.dir}

\* C39: every entry that is not a directory is handled as the class the
\* rules give its name: ignored when a path segment starts with '.' or the
\* path holds an OS-metadata marker, an image by the extensions jpg, jpeg,
\* png, gif, webp, a translation by the extension json, ignored otherwise;
\* a name without an extension is neither an image nor a translation.
C39_ClassifiedByRules == \A e \in EntriesMet : handledAs(e.name) = ClassOf(e.name)

\* every entry whose name has an extension is handled as the rules say
WithExtensionClassifiedByRules ==
  \A e \in EntriesMet : HasExtension(e.name) => handledAs(e.name) = ClassOf(e.name)

\* an entry named json, without extension, is handled as no translation
BareJsonIgnored ==
  \A e \in EntriesMet : e.name = Str_json => handledAs(e.name) = "Ignored"

\* an entry named png has become an image of the archive
BarePngIsImage ==
  \E i \in 1..Len(currentFiles.images) : currentFiles.images[i].filename = Str_png

\* an entry named json has been met and is ignored
BareJsonMet ==
  \E e \in EntriesMet : e.name = Str_json /\ handledAs(e.name) = "Ignored"
====
